---- MODULE Spec2Model ----
(***************************************************************************)
(* The leaderboard engine of sleep-api: GET /leaderboard over the Prisma   *)
(* store (User, Friend, SleepNight).  Three builds of the route are kept   *)
(* in the repository and are modelled side by side:                        *)
(*   "current"  src/src/routes/leaderboard.ts   (Monday 00:00 UTC onwards, *)
(*              four boards, value tie-break in the final sort)            *)
(*   "weekly"   src/unnamed/part_002:20-194     (Monday to Monday with an  *)
(*              offset in weeks, four boards, final sort on points only)   *)
(*   "workweek" src/unnamed/part_003            (Monday to Monday, Mon-Fri *)
(*              nights summed, three boards)                               *)
(***************************************************************************)
EXTENDS Integers, Sequences, FiniteSets, TLC

\* ------------------------------------------------------------------------
\* Dates.  A JavaScript Date is a UTC time value; it is kept as the number
\* of whole days since 1970-01-01 and the milliseconds into that day.
\* ------------------------------------------------------------------------

\* civil date -> day number (the proleptic Gregorian calendar of ECMAScript's
\* MakeDay); d may lie outside the month: the day number is linear in d
DaysFromCivil(y, m, d) ==
  LET yy  == IF m <= 2 THEN y - 1 ELSE y
      era == yy \div 400
      yoe == yy - era * 400
      mp  == IF m > 2 THEN m - 3 ELSE m + 9
      doy == (153 * mp + 2) \div 5 + d - 1
      doe == yoe * 365 + yoe \div 4 - yoe \div 100 + doy
  IN  era * 146097 + doe - 719468

\* day number -> civil date [y, m, d] with m in 1..12
CivilFromDays(z) ==
  LET zz  == z + 719468
      era == zz \div 146097
      doe == zz - era * 146097
      yoe == (doe - doe \div 1460 + doe \div 36524 - doe \div 146096) \div 365
      doy == doe - (365 * yoe + yoe \div 4 - yoe \div 100)
      mp  == (5 * doy + 2) \div 153
      d   == doy - (153 * mp + 2) \div 5 + 1
      m   == IF mp < 10 THEN mp + 3 ELSE mp - 9
      y   == yoe + era * 400 + (IF m <= 2 THEN 1 ELSE 0)
  IN  [y |-> y, m |-> m, d |-> d]

MkDate(day, ms) == [day |-> day, ms |-> ms]

\* Date.prototype.getUTCDay: 0 (Sun) .. 6 (Sat); 1970-01-01 was a Thursday
getUTCDay(t) == (t.day + 4) % 7

getUTCFullYear(t) == CivilFromDays(t.day).y

\* Date.prototype.getUTCMonth: 0 .. 11
getUTCMonth(t) == CivilFromDays(t.day).m - 1

getUTCDate(t) == CivilFromDays(t.day).d

\* Date.prototype.setUTCDate(v): day v of t's own month, time of day kept;
\* v <= 0 or v past the month's end rolls into the neighbouring months
setUTCDate(t, v) ==
  MkDate(DaysFromCivil(getUTCFullYear(t), getUTCMonth(t) + 1, v), t.ms)

\* Date.prototype.setUTCHours(0, 0, 0, 0)
setUTCHours0(t) == MkDate(t.day, 0)

\* Date.UTC(year, month, date, 0, 0, 0, 0) with month in 0..11
DateUTC(year, month, date) == MkDate(DaysFromCivil(year, month + 1, date), 0)

\* a <= b and a < b on time values (Prisma's gte / lt filters)
DateLeq(a, b) == a.day < b.day \/ (a.day = b.day /\ a.ms <= b.ms)

DateLt(a, b) == a.day < b.day \/ (a.day = b.day /\ a.ms < b.ms)

\* Date.prototype.toISOString().split("T")[0]: the UTC calendar date
dateKey(t) == LET c == CivilFromDays(t.day) IN <<c.y, c.m, c.d>>

\* ------------------------------------------------------------------------
\* Window resolution of the three builds
\* ------------------------------------------------------------------------

NoDate == [day |-> -1, ms |-> -1]

\* a week start that forgets that getUTCDay() is 0 on a Sunday
diffToMondayNoSunday(utcDay) == utcDay - 1

\* leaderboard.ts:36, part_002:36
diffToMonday(utcDay) == IF utcDay = 0 THEN 6 ELSE utcDay - 1

\* part_003:30
diffToMondayMod(utcDay) == (utcDay + 6) % 7

\* leaderboard.ts:38-40: the offset is not read
startOfWeekCurrent(now) ==
  setUTCHours0(setUTCDate(now, getUTCDate(now) - diffToMonday(getUTCDay(now))))

\* part_002:38-40
startOfWeekWeekly(now, offset) ==
  setUTCHours0(
    setUTCDate(now, getUTCDate(now) - diffToMonday(getUTCDay(now)) - offset * 7))

\* part_002:42-43
endOfWeekWeekly(startOfWeek) == setUTCDate(startOfWeek, getUTCDate(startOfWeek) + 7)

\* part_003:31-41
mondayThisWeek(now) ==
  DateUTC(getUTCFullYear(now), getUTCMonth(now),
          getUTCDate(now) - diffToMondayMod(getUTCDay(now)))

\* part_003:44-54
nextMonday(monday) ==
  DateUTC(getUTCFullYear(monday), getUTCMonth(monday), getUTCDate(monday) + 7)

\* ------------------------------------------------------------------------
\* The store: User, Friend and SleepNight rows (prisma/migrations)
\* ------------------------------------------------------------------------

Null == "null"

UserSeq == <<"A", "B", "C", "D">>

UserIds == {UserSeq[i] : i \in 1..Len(UserSeq)}

GroupIds == {"g1", "g2"}

UserIdx(u) == CHOOSE i \in 1..Len(UserSeq) : UserSeq[i] = u

VARIABLES
  users,    \* User table: id -> [groupId, displayName, email, avatarUrl]
  friends,  \* Friend table: set of [userId, friendId]
  nights,   \* SleepNight table: set of [userId, date, totalSleepMinutes, ...]
  clock,    \* the server's clock, read by new Date()
  build,    \* which build of the /leaderboard route is registered
  lb,       \* the /leaderboard request being handled
  issued,   \* the store queries the request has issued so far
  resp,     \* the reply sent for the request
  replies,  \* the replies the route has sent so far, oldest first
  up,       \* the POST /sleep/upload request being handled
  fr,       \* the POST /friends/add requests being handled, one per slot
  del,      \* the POST /me/delete-account request being handled
  hook      \* the request the preHandler hook has taken in

vars ==
  <<users, friends, nights, clock, build, lb, issued, resp, replies, up, fr,
    del, hook>>

store == <<users, friends, nights>>

\* rows of a set as a sequence, ascending in an integer key that is unique
\* on the set
RECURSIVE SeqByKey(_, _)
SeqByKey(S, key) ==
  IF S = {} THEN <<>>
  ELSE LET x == CHOOSE x \in S : \A y \in S : key[x] <= key[y]
       IN  <<x>> \o SeqByKey(S \ {x}, key)

Reverse(s) == [i \in 1..Len(s) |-> s[Len(s) + 1 - i]]

\* findMany without orderBy: the order of the rows is the database's choice.
\* The model lets it return them in ascending or in descending key order.
QueryOrders == {"asc", "desc"}

RowsInOrder(S, key, ord) ==
  IF ord = "asc" THEN SeqByKey(S, key) ELSE Reverse(SeqByKey(S, key))

userKey(S) == [u \in S |-> UserIdx(u)]

friendKey(S) == [r \in S |-> UserIdx(r.userId) * 10 + UserIdx(r.friendId)]

nightKey(S) == [n \in S |-> n.date.day * 10 + UserIdx(n.userId)]

\* prisma.user.findUnique({where: {id}, select: {groupId}})?.groupId
findUserGroup(id) == IF id \in DOMAIN users THEN users[id].groupId ELSE Null

\* a member query without its where clause
findGroupMembersAll(groupId) == DOMAIN users

\* prisma.user.findMany({where: {groupId}, select: {id}})
findGroupMembers(groupId) == {u \in DOMAIN users : users[u].groupId = groupId}

\* a friend query that follows the rows the user created only
findRelationsOutgoing(userId) == {r \in friends : r.userId = userId}

\* prisma.friend.findMany({where: {OR: [{userId}, {friendId: userId}]}})
findRelations(userId) ==
  {r \in friends : r.userId = userId \/ r.friendId = userId}

\* prisma.sleepNight.findMany({where: {userId: {in}, date: {gte[, lt]}}})
findNights(ids, gte, lt) ==
  {n \in nights :
     /\ n.userId \in ids
     /\ DateLeq(gte, n.date)
     /\ (lt # NoDate => DateLt(n.date, lt))}

\* prisma.user.findMany({where: {id: {in}}}) as the Map built from it
findUserMap(ids) == [u \in (ids \cap DOMAIN users) |-> users[u]]

\* ------------------------------------------------------------------------
\* Scoring (leaderboard.ts:95-217, part_002:102-191)
\* ------------------------------------------------------------------------

MinValidMinutes == 45

BoardNames == <<"survivalist", "hibernator", "tomRemmer", "rollingInTheDeep">>

\* the metricFn and sortAscending each board is computed with
\* (leaderboard.ts:199-208, part_002:186-189)
boardMetric(name) ==
  CASE name = "survivalist"      -> "total"
    [] name = "hibernator"       -> "total"
    [] name = "tomRemmer"        -> "rem"
    [] name = "rollingInTheDeep" -> "deep"

\* four boards that all rank the highest value first
boardAscendingNever(name) == FALSE

boardAscending(name) == name = "survivalist"

RECURSIVE SetSum(_, _)
SetSum(S, f) ==
  IF S = {} THEN 0
  ELSE LET x == CHOOSE x \in S : TRUE IN f[x] + SetSum(S \ {x}, f)

\* Array.prototype.sort with comparator Cmp: a stable sort (ES2019), written
\* as the insertion of each element behind the elements not greater than it
InsertSorted(t, x, Cmp(_, _)) ==
  LET p == CHOOSE p \in 0..Len(t) :
             /\ \A j \in 1..p : Cmp(t[j], x) <= 0
             /\ (p < Len(t) => Cmp(t[p + 1], x) > 0)
  IN  SubSeq(t, 1, p) \o <<x>> \o SubSeq(t, p + 1, Len(t))

StableSort(s, Cmp(_, _)) ==
  LET ins[i \in 0..Len(s)] ==
        IF i = 0 THEN <<>> ELSE InsertSorted(ins[i - 1], s[i], Cmp)
  IN  ins[Len(s)]

\* a population that keeps every id as often as it was found
DedupeKeepAll(s) == s

\* Array.from(new Set(s)): first occurrences, in order
Dedupe(s) ==
  LET keep == {i \in 1..Len(s) : \A j \in 1..(i - 1) : s[j] # s[i]}
      idx  == SeqByKey(keep, [i \in keep |-> i])
  IN  [i \in 1..Len(idx) |-> s[idx[i]]]

SeqRange(s) == {s[i] : i \in 1..Len(s)}

\* a filter that drops the night of exactly MinValidMinutes too
keepNightStrict(night) == night.totalSleepMinutes > MinValidMinutes

\* leaderboard.ts:109: "Filter invalid nights (< 45 mins)"
keepNight(night) == ~(night.totalSleepMinutes < MinValidMinutes)

toDayStat(night) ==
  [userId |-> night.userId, total |-> night.totalSleepMinutes,
   rem |-> night.remSleepMinutes, deep |-> night.deepSleepMinutes]

\* leaderboard.ts:105-121: the kept nights grouped by date key, each bucket in
\* the order the rows came back
nightsByDateOf(rawNights) ==
  LET kept == SelectSeq(rawNights, keepNight)
      keys == {dateKey(kept[i].date) : i \in 1..Len(kept)}
      idxOf(k) == LET I == {i \in 1..Len(kept) : dateKey(kept[i].date) = k}
                  IN  SeqByKey(I, [i \in I |-> i])
  IN  [k \in keys |->
         [j \in 1..Len(idxOf(k)) |-> toDayStat(kept[idxOf(k)[j]])]]

\* an extractor that reads the total minutes for every metric
metricFnTotal(metric, stat) == stat.total

metricFn(metric, stat) ==
  CASE metric = "total" -> stat.total
    [] metric = "rem"   -> stat.rem
    [] metric = "deep"  -> stat.deep

\* a table that pays the first two ranks only
pointsForIndexTopTwo(index) == IF index = 0 THEN 3 ELSE IF index = 1 THEN 2 ELSE 0

\* a table that pays every rank after the second one point
pointsForIndexFlat(index) == IF index = 0 THEN 3 ELSE IF index = 1 THEN 2 ELSE 1

\* leaderboard.ts:150-151
pointsForIndex(index) ==
  IF index = 0 THEN 3 ELSE IF index = 1 THEN 2 ELSE IF index = 2 THEN 1 ELSE 0

\* a sort that drops the stats whose metric is 0 from the bucket
sortStatsDropZero(stats, metric, sortAscending) ==
  StableSort(SelectSeq(stats, LAMBDA st : metricFn(metric, st) > 0),
    LAMBDA a, b : IF sortAscending
                    THEN metricFn(metric, a) - metricFn(metric, b)
                    ELSE metricFn(metric, b) - metricFn(metric, a))

\* leaderboard.ts:142-146: stats.sort sorts the bucket in place
sortStats(stats, metric, sortAscending) ==
  StableSort(stats,
    LAMBDA a, b : IF sortAscending
                    THEN metricFn(metric, a) - metricFn(metric, b)
                    ELSE metricFn(metric, b) - metricFn(metric, a))

\* the comparator of the final sort: leaderboard.ts:188-193 ("current"),
\* part_002:181 ("weekly")
finalCompare(bld, sortAscending, a, b) ==
  IF bld = "current"
    THEN IF b.points # a.points THEN b.points - a.points
         ELSE IF sortAscending THEN a.value - b.value ELSE b.value - a.value
    ELSE b.points - a.points

\* a board that lists every user of the population
includeRowAlways(logged) == TRUE

\* leaderboard.ts:174: "Only include if they logged at least once"
includeRow(logged) == logged > 0

profileField(userMap, id, field) ==
  IF id \in DOMAIN userMap THEN userMap[id][field] ELSE Null

\* calculateBoard(metricFn, sortAscending): the rows of one board and the
\* buckets as the in-place sorts leave them for the next call
calculateBoard(metric, sortAscending, nightsByDate, targetUserIds, userMap, bld) ==
  LET sorted == [k \in DOMAIN nightsByDate |->
                   sortStats(nightsByDate[k], metric, sortAscending)]
      cells  == UNION {{<<k, i>> : i \in 1..Len(sorted[k])} : k \in DOMAIN sorted}
      of(id) == {c \in cells : sorted[c[1]][c[2]].userId = id}
      userPoints(id) ==
        SetSum(of(id), [c \in of(id) |-> pointsForIndex(c[2] - 1)])
      userValueSum(id) ==
        SetSum(of(id), [c \in of(id) |-> metricFn(metric, sorted[c[1]][c[2]])])
      userNightsLogged(id) == Cardinality(of(id))
      listed == SelectSeq(targetUserIds, LAMBDA id : includeRow(userNightsLogged(id)))
      result == [i \in 1..Len(listed) |->
                   [userId       |-> listed[i],
                    displayName  |-> profileField(userMap, listed[i], "displayName"),
                    email        |-> profileField(userMap, listed[i], "email"),
                    avatarUrl    |-> profileField(userMap, listed[i], "avatarUrl"),
                    points       |-> userPoints(listed[i]),
                    value        |-> userValueSum(listed[i]),
                    nightsLogged |-> userNightsLogged(listed[i])]]
  IN  [rows |-> StableSort(result,
                  LAMBDA a, b : finalCompare(bld, sortAscending, a, b)),
       nightsByDate |-> sorted]

\* leaderboard.ts:196-217: the four boards, computed in this order over the
\* same buckets
fourBoards(rawNights, targetUserIds, userMap, bld) ==
  LET run[i \in 0..Len(BoardNames)] ==
        IF i = 0
          THEN [rows |-> <<>>, nightsByDate |-> nightsByDateOf(rawNights)]
          ELSE calculateBoard(boardMetric(BoardNames[i]),
                              boardAscending(BoardNames[i]),
                              run[i - 1].nightsByDate,
                              targetUserIds, userMap, bld)
  IN  [n \in SeqRange(BoardNames) |->
         run[CHOOSE i \in 1..Len(BoardNames) : BoardNames[i] = n].rows]

\* leaderboard.ts:52-59, part_002:56-63
emptyBoards == [n \in SeqRange(BoardNames) |-> <<>>]

\* ------------------------------------------------------------------------
\* The "workweek" build's boards (part_003:89-161)
\* ------------------------------------------------------------------------

WorkBoardNames == {"survivalist", "tomRemmer", "rollingInTheDeep"}

\* part_003:90-93
isWorkNight(night) == getUTCDay(night.date) >= 1 /\ getUTCDay(night.date) <= 5

workweekBoards(rawNights, userIds, userMap) ==
  LET workNights == SelectSeq(rawNights, isWorkNight)
      of(id) == {i \in 1..Len(workNights) : workNights[i].userId = id}
      sum(id, field) == SetSum(of(id), [i \in of(id) |-> workNights[i][field]])
      rows == [i \in 1..Len(userIds) |->
                 [userId            |-> userIds[i],
                  displayName       |-> profileField(userMap, userIds[i], "displayName"),
                  email             |-> profileField(userMap, userIds[i], "email"),
                  totalSleepMinutes |-> sum(userIds[i], "totalSleepMinutes"),
                  remSleepMinutes   |-> sum(userIds[i], "remSleepMinutes"),
                  deepSleepMinutes  |-> sum(userIds[i], "deepSleepMinutes")]]
  IN  [n \in WorkBoardNames |->
         CASE n = "survivalist" ->
                StableSort(rows, LAMBDA a, b : a.totalSleepMinutes - b.totalSleepMinutes)
           [] n = "tomRemmer" ->
                StableSort(rows, LAMBDA a, b : b.remSleepMinutes - a.remSleepMinutes)
           [] n = "rollingInTheDeep" ->
                StableSort(rows, LAMBDA a, b : b.deepSleepMinutes - a.deepSleepMinutes)]

\* ------------------------------------------------------------------------
\* GET /leaderboard: one action per await of the handler
\* ------------------------------------------------------------------------

NoResp == [status |-> 0]

IdleLb ==
  [pc |-> "idle", query |-> [scope |-> Null, offset |-> <<>>],
   userId |-> Null, scope |-> Null, offset |-> 0,
   now |-> NoDate, startOfWeek |-> NoDate, endOfWeek |-> NoDate,
   groupId |-> Null, targetUserIds |-> <<>>, rawNights |-> <<>>,
   error |-> Null]

\* request.query.scope || "friends" (leaderboard.ts:31)
scopeOf(q) == IF q.scope = Null THEN "friends" ELSE q.scope

\* request.query.offset ? Number(request.query.offset) : 0 (part_002:31);
\* leaderboard.ts and part_003 read no offset.  The query parameter is <<>>
\* when it is absent and <<k>> when it is the decimal text of k.
offsetOf(bld, q) == IF bld = "weekly" /\ q.offset # <<>> THEN q.offset[1] ELSE 0

windowStart(bld, now, offset) ==
  CASE bld = "current"  -> startOfWeekCurrent(now)
    [] bld = "weekly"   -> startOfWeekWeekly(now, offset)
    [] bld = "workweek" -> mondayThisWeek(now)

\* the lt bound of the nights query; NoDate where the query has none
\* (leaderboard.ts:85)
windowEnd(bld, start) ==
  CASE bld = "current"  -> NoDate
    [] bld = "weekly"   -> endOfWeekWeekly(start)
    [] bld = "workweek" -> nextMonday(start)

\* leaderboard.ts:62-66, 79: the clan's members as the store returned them
clanTargets(groupId, ord) ==
  LET members     == findGroupMembers(groupId)
      clanMembers == RowsInOrder(members, userKey(members), ord)
  IN  Dedupe(clanMembers)

\* leaderboard.ts:43, 68-79: the requester, then the other end of each friend
\* row as the store returned them
friendTargets(userId, ord) ==
  LET rels      == findRelations(userId)
      relations == RowsInOrder(rels, friendKey(rels), ord)
      friendIds == [i \in 1..Len(relations) |->
                      IF relations[i].userId = userId
                        THEN relations[i].friendId
                        ELSE relations[i].userId]
  IN  Dedupe(<<userId>> \o friendIds)

\* leaderboard.ts:82-87: the nights of the population as the store returned
\* them
fetchNights(targetUserIds, gte, lt, ord) ==
  LET found == findNights(SeqRange(targetUserIds), gte, lt)
  IN  RowsInOrder(found, nightKey(found), ord)

\* a reply as the client sees it, with the request it answers
sentReply(body) ==
  [userId |-> lb.userId, query |-> lb.query, now |-> lb.now, body |-> body]

\* a clan scope without its early return
notInClanNever(groupId) == FALSE

\* !currentUserData?.groupId (leaderboard.ts:51)
notInClan(groupId) == groupId = Null

\* the handler up to its first await
LbStart(Q) ==
  \E q \in Q :
    /\ lb.pc = "idle"
    /\ LET offset == offsetOf(build, q)
           start  == windowStart(build, clock, offset)
           clan   == build # "workweek" /\ scopeOf(q) = "clan"
       IN  /\ lb' = [IdleLb EXCEPT
                       !.pc = IF clan THEN "findUnique" ELSE "findFriends",
                       !.query = [scope |-> q.scope, offset |-> q.offset],
                       !.userId = q.userId,
                       !.scope = scopeOf(q),
                       !.offset = offset,
                       !.now = clock,
                       !.startOfWeek = start,
                       !.endOfWeek = windowEnd(build, start),
                       !.targetUserIds = <<q.userId>>]
           /\ issued' = {IF clan THEN "user.findUnique" ELSE "friend.findMany"}
    /\ UNCHANGED <<users, friends, nights, clock, build, resp, replies, up, fr, del, hook>>

\* leaderboard.ts:51-60: not in a clan
LbNoClan ==
  /\ lb.pc = "findUnique"
  /\ notInClan(findUserGroup(lb.userId))
  /\ lb' = [lb EXCEPT !.pc = "done"]
  /\ resp' = [status |-> 200, leaderboards |-> emptyBoards]
  /\ replies' = Append(replies, sentReply(resp'))
  /\ UNCHANGED <<users, friends, nights, clock, build, issued, up, fr, del, hook>>

\* leaderboard.ts:62-65
LbClanFound ==
  /\ lb.pc = "findUnique"
  /\ ~notInClan(findUserGroup(lb.userId))
  /\ lb' = [lb EXCEPT !.pc = "findMembers", !.groupId = findUserGroup(lb.userId)]
  /\ issued' = issued \cup {"user.findMany.members"}
  /\ UNCHANGED <<users, friends, nights, clock, build, resp, replies, up, fr, del, hook>>

\* leaderboard.ts:66, 79, 82
LbClanMembers ==
  \E ord \in QueryOrders :
    /\ lb.pc = "findMembers"
    /\ lb' = [lb EXCEPT !.pc = "findNights",
                         !.targetUserIds = clanTargets(lb.groupId, ord)]
    /\ issued' = issued \cup {"sleepNight.findMany"}
    /\ UNCHANGED <<users, friends, nights, clock, build, resp, replies, up, fr, del, hook>>

\* leaderboard.ts:68-79, 82
LbFriends ==
  \E ord \in QueryOrders :
    /\ lb.pc = "findFriends"
    /\ lb' = [lb EXCEPT !.pc = "findNights",
                         !.targetUserIds = friendTargets(lb.userId, ord)]
    /\ issued' = issued \cup {"sleepNight.findMany"}
    /\ UNCHANGED <<users, friends, nights, clock, build, resp, replies, up, fr, del, hook>>

\* leaderboard.ts:82-89
LbNights ==
  \E ord \in QueryOrders :
    /\ lb.pc = "findNights"
    /\ lb' = [lb EXCEPT !.pc = "findUsers",
                         !.rawNights = fetchNights(lb.targetUserIds, lb.startOfWeek,
                                                   lb.endOfWeek, ord)]
    /\ issued' = issued \cup {"user.findMany.details"}
    /\ UNCHANGED <<users, friends, nights, clock, build, resp, replies, up, fr, del, hook>>

\* a handler that deletes the nights its filter rejects
LbRespondPruning ==
  /\ lb.pc = "findUsers"
  /\ lb' = [lb EXCEPT !.pc = "done"]
  /\ resp' = [status |-> 200,
              leaderboards |->
                fourBoards(lb.rawNights, lb.targetUserIds,
                           findUserMap(SeqRange(lb.targetUserIds)), build)]
  /\ replies' = Append(replies, sentReply(resp'))
  /\ nights' = {n \in nights : keepNight(n)}
  /\ UNCHANGED <<users, friends, clock, build, issued, up, fr, del, hook>>

\* leaderboard.ts:93-217: everything after the last await
LbRespond ==
  /\ lb.pc = "findUsers"
  /\ lb' = [lb EXCEPT !.pc = "done"]
  /\ LET userMap == findUserMap(SeqRange(lb.targetUserIds))
     IN  resp' =
           [status |-> 200,
            leaderboards |->
              IF build = "workweek"
                THEN workweekBoards(lb.rawNights, lb.targetUserIds, userMap)
                ELSE fourBoards(lb.rawNights, lb.targetUserIds, userMap, build)]
  /\ replies' = Append(replies, sentReply(resp'))
  /\ UNCHANGED <<users, friends, nights, clock, build, issued, up, fr, del, hook>>

\* the store query a request waits for at each await
PendingQuery ==
  [findUnique |-> "user.findUnique", findMembers |-> "user.findMany.members",
   findFriends |-> "friend.findMany", findNights |-> "sleepNight.findMany",
   findUsers |-> "user.findMany.details"]

\* a handler that catches a failed query and goes on with no rows
LbFailSwallowed ==
  /\ lb.pc \in DOMAIN PendingQuery
  /\ lb' = [lb EXCEPT !.pc = "findUsers", !.error = PendingQuery[lb.pc]]
  /\ issued' = issued \cup {"user.findMany.details"}
  /\ UNCHANGED <<users, friends, nights, clock, build, resp, replies, up, fr, del, hook>>

\* leaderboard.ts:46, 62, 68, 82, 89: the awaited query rejects; the handler
\* has no try/catch, so the rejection ends it and the request is answered
\* with an error
LbFail ==
  /\ lb.pc \in DOMAIN PendingQuery
  /\ lb' = [lb EXCEPT !.pc = "done", !.error = PendingQuery[lb.pc]]
  /\ resp' = [status |-> 500]
  /\ replies' = Append(replies, sentReply(resp'))
  /\ UNCHANGED <<users, friends, nights, clock, build, issued, up, fr, del, hook>>

\* leaderboard.ts:22-24: the route handles the next request
LbNext ==
  /\ lb.pc = "done"
  /\ lb' = IdleLb
  /\ issued' = {}
  /\ resp' = NoResp
  /\ UNCHANGED <<users, friends, nights, clock, build, replies, up, fr, del, hook>>

\* ------------------------------------------------------------------------
\* POST /sleep/upload (sleep.ts:14-76): one action per await of the handler.
\* A number of the body is <<>> when it is not a finite number and <<t>> when
\* it is t tenths of a minute; the date of the body is the time value
\* Date.parse gives, NoDate when there is none.
\* ------------------------------------------------------------------------

NoBody ==
  [date |-> NoDate, totalSleepMinutes |-> <<>>, remSleepMinutes |-> <<>>,
   deepSleepMinutes |-> <<>>]

IdleUp ==
  [pc |-> "idle", userId |-> Null, body |-> NoBody, dateObj |-> NoDate,
   branch |-> "none", status |-> 0, error |-> Null]

\* Number.isFinite
isFinite(x) == x # <<>>

\* Math.round of t tenths: the nearest integer, a half rounded up
MathRound(x) == (x[1] + 5) \div 10

\* sleep.ts:25-36: the error of the first check that fails, Null if none does
uploadError(body) ==
  IF body.date = NoDate THEN "Invalid date"
  ELSE IF ~isFinite(body.totalSleepMinutes) \/ body.totalSleepMinutes[1] <= 0
    THEN "Invalid totalSleepMinutes"
  ELSE IF ~isFinite(body.remSleepMinutes) \/ body.remSleepMinutes[1] < 0
    THEN "Invalid remSleepMinutes"
  ELSE IF ~isFinite(body.deepSleepMinutes) \/ body.deepSleepMinutes[1] < 0
    THEN "Invalid deepSleepMinutes"
  ELSE Null

\* sleep.ts:43-51: create {id, displayName: null, avatarUrl: null}
createdUser ==
  [groupId |-> Null, displayName |-> Null, email |-> Null, avatarUrl |-> Null]

\* sleep.ts:60-72: the row the upsert creates, or the minutes it updates
nightOf(userId, dateObj, body) ==
  [userId |-> userId, date |-> dateObj,
   totalSleepMinutes |-> MathRound(body.totalSleepMinutes),
   remSleepMinutes |-> MathRound(body.remSleepMinutes),
   deepSleepMinutes |-> MathRound(body.deepSleepMinutes)]

\* an upsert that never finds the row
nightsAtNever(userId, dateObj) == {}

\* where: {userId_date: {userId, date: dateObj}}
nightsAt(userId, dateObj) ==
  {n \in nights : n.userId = userId /\ n.date = dateObj}

\* sleep.ts:25-36: a body that fails a check is answered 400
UpReject(U, B) ==
  \E u \in U, body \in B :
    /\ up.pc = "idle"
    /\ uploadError(body) # Null
    /\ up' = [IdleUp EXCEPT !.pc = "done", !.userId = u, !.body = body,
                            !.status = 400, !.error = uploadError(body)]
    /\ UNCHANGED <<users, friends, nights, clock, build, lb, issued, resp, replies, fr, del, hook>>

\* sleep.ts:38-43: the date is normalised and the user upsert is issued
UpStart(U, B) ==
  \E u \in U, body \in B :
    /\ up.pc = "idle"
    /\ uploadError(body) = Null
    /\ up' = [IdleUp EXCEPT !.pc = "upsertUser", !.userId = u, !.body = body,
                            !.dateObj = setUTCHours0(body.date)]
    /\ UNCHANGED <<users, friends, nights, clock, build, lb, issued, resp, replies, fr, del, hook>>

\* sleep.ts:43-53
UpUser ==
  /\ up.pc = "upsertUser"
  /\ users' = IF up.userId \in DOMAIN users THEN users
              ELSE [u \in DOMAIN users \cup {up.userId} |->
                      IF u = up.userId THEN createdUser ELSE users[u]]
  /\ up' = [up EXCEPT !.pc = "upsertNight"]
  /\ UNCHANGED <<friends, nights, clock, build, lb, issued, resp, replies, fr, del, hook>>

\* sleep.ts:53-75
UpNight ==
  /\ up.pc = "upsertNight"
  /\ up.userId \in DOMAIN users
  /\ LET old == nightsAt(up.userId, up.dateObj)
     IN  /\ nights' = (nights \ old) \cup {nightOf(up.userId, up.dateObj, up.body)}
         /\ up' = [up EXCEPT !.pc = "done", !.status = 200,
                             !.branch = IF old = {} THEN "create" ELSE "update"]
  /\ UNCHANGED <<users, friends, clock, build, lb, issued, resp, replies, fr, del, hook>>

\* sleep.ts:53-73 under SleepNight_userId_fkey: the user row the handler
\* made sure of is gone again, the upsert is refused and the rejection,
\* which the handler does not catch, is answered with an error
UpNightFail ==
  /\ up.pc = "upsertNight"
  /\ up.userId \notin DOMAIN users
  /\ up' = [up EXCEPT !.pc = "done", !.status = 500,
                      !.error = "SleepNight_userId_fkey"]
  /\ UNCHANGED <<users, friends, nights, clock, build, lb, issued, resp, replies, fr, del, hook>>

\* the route handles the next upload
UpNext ==
  /\ up.pc = "done"
  /\ up' = IdleUp
  /\ UNCHANGED <<users, friends, nights, clock, build, lb, issued, resp, replies, fr, del, hook>>

\* ------------------------------------------------------------------------
\* POST /friends/add (friends.ts:11-62): one action per await of the handler,
\* for each of the requests the server handles at a time
\* ------------------------------------------------------------------------

MaxAdders == 2

AddSlots == 1..MaxAdders

IdleAdd ==
  [pc |-> "idle", userId |-> Null, email |-> Null, targetId |-> Null,
   status |-> 0, error |-> Null]

IdleAdds == [s \in AddSlots |-> IdleAdd]

\* prisma.user.findUnique({where: {email}}) (friends.ts:24-26)
findUserByEmail(email) == {u \in DOMAIN users : users[u].email = email}

\* prisma.friend.findFirst, either direction (friends.ts:41-48)
findExisting(userId, targetId) ==
  {f \in friends : \/ f.userId = userId /\ f.friendId = targetId
                   \/ f.userId = targetId /\ f.friendId = userId}

\* Friend_userId_friendId_key, Friend_userId_fkey and Friend_friendId_fkey:
\* the error the store raises for a row, Null if it takes it
friendCreateError(row) ==
  IF row \in friends THEN "Friend_userId_friendId_key"
  ELSE IF row.userId \notin DOMAIN users THEN "Friend_userId_fkey"
  ELSE IF row.friendId \notin DOMAIN users THEN "Friend_friendId_fkey"
  ELSE Null

\* friends.ts:19-22: no email in the body
FrReject(s, U) ==
  \E u \in U :
    /\ fr[s].pc = "idle"
    /\ fr' = [fr EXCEPT ![s] = [IdleAdd EXCEPT !.pc = "done", !.userId = u,
                                               !.status = 400,
                                               !.error = "Email required"]]
    /\ UNCHANGED <<users, friends, nights, clock, build, lb, issued, resp, replies, up, del, hook>>

\* friends.ts:12-24: the handler up to its first await
FrStart(s, U, E) ==
  \E u \in U, e \in E :
    /\ fr[s].pc = "idle"
    /\ e # Null
    /\ fr' = [fr EXCEPT ![s] = [IdleAdd EXCEPT !.pc = "findTarget", !.userId = u,
                                               !.email = e]]
    /\ UNCHANGED <<users, friends, nights, clock, build, lb, issued, resp, replies, up, del, hook>>

\* friends.ts:24-41: the target is looked up by email
FrTarget(s) ==
  /\ fr[s].pc = "findTarget"
  /\ LET target == findUserByEmail(fr[s].email)
     IN  fr' = [fr EXCEPT ![s] =
                 IF target = {}
                   THEN [@ EXCEPT !.pc = "done", !.status = 404,
                                  !.error = "User not found or has not opened the app yet"]
                 ELSE IF fr[s].userId \in target
                   THEN [@ EXCEPT !.pc = "done", !.status = 400,
                                  !.error = "Cannot add yourself as a friend"]
                 ELSE [@ EXCEPT !.pc = "findExisting",
                                !.targetId = CHOOSE t \in target : TRUE]]
  /\ UNCHANGED <<users, friends, nights, clock, build, lb, issued, resp, replies, up, del, hook>>

\* friends.ts:41-54: the check for a row in either direction
FrExisting(s) ==
  /\ fr[s].pc = "findExisting"
  /\ fr' = [fr EXCEPT ![s] =
              IF findExisting(fr[s].userId, fr[s].targetId) # {}
                THEN [@ EXCEPT !.pc = "done", !.status = 400,
                               !.error = "Already friends"]
                ELSE [@ EXCEPT !.pc = "create"]]
  /\ UNCHANGED <<users, friends, nights, clock, build, lb, issued, resp, replies, up, del, hook>>

\* friends.ts:54-61: the row is created
FrCreate(s) ==
  /\ fr[s].pc = "create"
  /\ LET row == [userId |-> fr[s].userId, friendId |-> fr[s].targetId]
     IN  /\ friendCreateError(row) = Null
         /\ friends' = friends \cup {row}
  /\ fr' = [fr EXCEPT ![s] = [@ EXCEPT !.pc = "done", !.status = 200]]
  /\ UNCHANGED <<users, nights, clock, build, lb, issued, resp, replies, up, del, hook>>

\* friends.ts:54-59: the store refuses the row; the handler does not catch
\* the rejection and the request is answered with an error
FrCreateFail(s) ==
  /\ fr[s].pc = "create"
  /\ LET row == [userId |-> fr[s].userId, friendId |-> fr[s].targetId]
     IN  /\ friendCreateError(row) # Null
         /\ fr' = [fr EXCEPT ![s] = [@ EXCEPT !.pc = "done", !.status = 500,
                                              !.error = friendCreateError(row)]]
  /\ UNCHANGED <<users, friends, nights, clock, build, lb, issued, resp, replies, up, del, hook>>

\* the server handles the next request in the slot
FrNext(s) ==
  /\ fr[s].pc = "done"
  /\ fr' = [fr EXCEPT ![s] = IdleAdd]
  /\ UNCHANGED <<users, friends, nights, clock, build, lb, issued, resp, replies, up, del, hook>>

\* ------------------------------------------------------------------------
\* POST /me/delete-account (me.ts:148-185): one action per await of the
\* handler.  nightsBefore and friendsBefore keep the user's records and friend
\* rows as they were when the request arrived; the handler does not read them.
\* ------------------------------------------------------------------------

IdleDel ==
  [pc |-> "idle", userId |-> Null, status |-> 0, error |-> Null,
   nightsBefore |-> {}, friendsBefore |-> {}]

nightsOfUser(userId) == {n \in nights : n.userId = userId}

\* where: {OR: [{userId}, {friendId: userId}]} (me.ts:166-168)
friendsOfUser(userId) ==
  {f \in friends : f.userId = userId \/ f.friendId = userId}

\* a store whose keys do not restrict the delete of a user row
userDeleteErrorNever(userId) ==
  IF userId \notin DOMAIN users THEN "Record to delete does not exist" ELSE Null

\* prisma.user.delete under the ON DELETE RESTRICT keys of SleepNight and
\* Friend: the error the store raises, Null if it deletes the row
userDeleteError(userId) ==
  IF userId \notin DOMAIN users THEN "Record to delete does not exist"
  ELSE IF nightsOfUser(userId) # {} THEN "SleepNight_userId_fkey"
  ELSE IF friendsOfUser(userId) # {} THEN "Friend_userId_fkey"
  ELSE Null

\* me.ts:149-160
DelStart(U) ==
  \E u \in U :
    /\ del.pc = "idle"
    /\ del' = [IdleDel EXCEPT !.pc = "deleteNights", !.userId = u,
                              !.nightsBefore = nightsOfUser(u),
                              !.friendsBefore = friendsOfUser(u)]
    /\ UNCHANGED <<users, friends, nights, clock, build, lb, issued, resp, replies, up, fr, hook>>

\* me.ts:160-162: "1. delete all sleep rows"
DelNights ==
  /\ del.pc = "deleteNights"
  /\ nights' = nights \ nightsOfUser(del.userId)
  /\ del' = [del EXCEPT !.pc = "deleteFriends"]
  /\ UNCHANGED <<users, friends, clock, build, lb, issued, resp, replies, up, fr, hook>>

\* me.ts:165-169: "2. delete all friend relationships"
DelFriends ==
  /\ del.pc = "deleteFriends"
  /\ friends' = friends \ friendsOfUser(del.userId)
  /\ del' = [del EXCEPT !.pc = "deleteUser"]
  /\ UNCHANGED <<users, nights, clock, build, lb, issued, resp, replies, up, fr, hook>>

\* me.ts:172-174: "3. delete profile row"
DelUser ==
  /\ del.pc = "deleteUser"
  /\ userDeleteError(del.userId) = Null
  /\ users' = [u \in DOMAIN users \ {del.userId} |-> users[u]]
  /\ del' = [del EXCEPT !.pc = "deleteAuth"]
  /\ UNCHANGED <<friends, nights, clock, build, lb, issued, resp, replies, up, fr, hook>>

\* me.ts:172-174, 181-184: the store refuses the delete, the catch answers
DelUserFail ==
  /\ del.pc = "deleteUser"
  /\ userDeleteError(del.userId) # Null
  /\ del' = [del EXCEPT !.pc = "done", !.status = 500,
                        !.error = userDeleteError(del.userId)]
  /\ UNCHANGED <<users, friends, nights, clock, build, lb, issued, resp, replies, up, fr, hook>>

\* me.ts:177-180: "4. delete Supabase Auth user", which succeeds
DelAuth ==
  /\ del.pc = "deleteAuth"
  /\ del' = [del EXCEPT !.pc = "done", !.status = 200]
  /\ UNCHANGED <<users, friends, nights, clock, build, lb, issued, resp, replies, up, fr, hook>>

\* me.ts:177-178, 181-184: the auth service reports an error
DelAuthFail ==
  /\ del.pc = "deleteAuth"
  /\ del' = [del EXCEPT !.pc = "done", !.status = 500,
                        !.error = "auth.admin.deleteUser"]
  /\ UNCHANGED <<users, friends, nights, clock, build, lb, issued, resp, replies, up, fr, hook>>

\* ------------------------------------------------------------------------
\* The preHandler hook (server.ts:18-45) and verifySupabaseToken
\* (auth/verifyJwt.ts:11-37).  A url is the sequence of its path segments;
\* the Authorization header is a scheme and a token, scheme "none" when the
\* request has no such header.
\* ------------------------------------------------------------------------

IdleHook ==
  [pc |-> "idle", url |-> <<>>, scheme |-> "none", token |-> Null,
   userId |-> Null, status |-> 0, error |-> Null]

\* the tokens the auth service answers with a user, and the user's id
TokenUsers == [tokA |-> "A", tokB |-> "B", tokD |-> "D"]

\* verifyJwt.ts:11-37: the id of the token's user; Null where the function
\* throws (the response is not ok, or carries no id)
verifySupabaseToken(token) ==
  IF token \in DOMAIN TokenUsers THEN TokenUsers[token] ELSE Null

\* the hook of the build that guards /sleep only
needsAuthSleepOnly(url) == url[1] = "sleep"

\* server.ts:19-29
needsAuth(url) == url[1] \in {"sleep", "friends", "leaderboard", "me"}

\* server.ts:18-45: the hook answers 401 itself or lets the handler run
PreHandler(R) ==
  \E r \in R :
    /\ hook.pc = "idle"
    /\ LET req == [IdleHook EXCEPT !.url = r.url, !.scheme = r.scheme,
                                   !.token = r.token]
       IN  hook' =
             IF ~needsAuth(r.url) THEN [req EXCEPT !.pc = "handler"]
             ELSE IF r.scheme # "Bearer"
               THEN [req EXCEPT !.pc = "done", !.status = 401,
                                !.error = "Missing Authorization header"]
             ELSE IF verifySupabaseToken(r.token) = Null
               THEN [req EXCEPT !.pc = "done", !.status = 401,
                                !.error = "Invalid token"]
             ELSE [req EXCEPT !.pc = "handler",
                              !.userId = verifySupabaseToken(r.token)]
    /\ UNCHANGED <<users, friends, nights, clock, build, lb, issued, resp, replies, up, fr, del>>

\* server.ts:15: GET /health
Health ==
  /\ hook.pc = "handler"
  /\ hook.url = <<"health">>
  /\ hook' = [hook EXCEPT !.pc = "done", !.status = 200]
  /\ UNCHANGED <<users, friends, nights, clock, build, lb, issued, resp, replies, up, fr, del>>

\* the request the hook took in has been answered, by the hook or by the
\* handler of its route
Answered ==
  \/ hook.pc = "done"
  \/ /\ hook.pc = "handler"
     /\ \/ lb.pc = "done"
        \/ up.pc = "done"
        \/ fr[1].pc = "done"
        \/ del.pc = "done"

\* the server takes the next request
HookNext ==
  /\ Answered
  /\ hook' = IdleHook
  /\ lb' = IdleLb
  /\ issued' = {}
  /\ resp' = NoResp
  /\ up' = IdleUp
  /\ fr' = IdleAdds
  /\ del' = IdleDel
  /\ UNCHANGED <<users, friends, nights, clock, build, replies>>

\* ------------------------------------------------------------------------
\* Specification Spec: one request against a store drawn from StoresScore
\* ------------------------------------------------------------------------

MaxNights == 6

displayNameOf(u) ==
  CASE u = "A" -> "Ann" [] u = "B" -> Null [] u = "C" -> "Cy" [] u = "D" -> "Dee"

emailOf(u) ==
  CASE u = "A" -> "a@x" [] u = "B" -> "b@x" [] u = "C" -> Null [] u = "D" -> "d@x"

userRow(u, groupId) ==
  [groupId |-> groupId, displayName |-> displayNameOf(u),
   email |-> emailOf(u), avatarUrl |-> Null]

mkNight(u, day, m) ==
  [userId |-> u, date |-> MkDate(day, 0), totalSleepMinutes |-> m[1],
   remSleepMinutes |-> m[2], deepSleepMinutes |-> m[3]]

\* a SleepNight table holds one row per (userId, date)
\* (SleepNight_userId_date_key)
UniqueNights(S) ==
  \A a, b \in S : (a.userId = b.userId /\ a.date = b.date) => a = b

NightStores(pool, max) ==
  {S \in SUBSET pool : Cardinality(S) <= max /\ UniqueNights(S)}

\* Wednesday 2025-12-31 12:00 UTC; its week starts Monday 2025-12-29
ScoreClock == MkDate(DaysFromCivil(2025, 12, 31), 43200000)

ScoreMonday == DaysFromCivil(2025, 12, 29)

ScoreTuesday == DaysFromCivil(2025, 12, 30)

\* Thursday of that week is 2026-01-01
ScoreThursday == DaysFromCivil(2026, 1, 1)

\* the measurements <<total, REM, deep>> a user may have uploaded for a day of
\* the week: A on three days, B and C on two (C ties with A on total and deep
\* minutes on Monday, C's Tuesday is a 44-minute nap), D a 45-minute night on
\* Monday
NightChoices(u, d) ==
  CASE u = "A" /\ d \in {ScoreMonday, ScoreTuesday, ScoreThursday} -> {<<300, 50, 20>>}
    [] u = "B" /\ d \in {ScoreMonday, ScoreTuesday} -> {<<500, 10, 90>>}
    [] u = "C" /\ d = ScoreMonday -> {<<300, 40, 20>>}
    [] u = "C" /\ d = ScoreTuesday -> {<<44, 30, 10>>}
    [] u = "D" /\ d = ScoreMonday -> {<<45, 0, 0>>}
    [] OTHER -> {}

ScoreDays == {ScoreMonday, ScoreTuesday, ScoreThursday}

ScorePool ==
  UNION {{mkNight(u, d, m) : m \in NightChoices(u, d)} : u \in UserIds, d \in ScoreDays}

ScoreUsers ==
  [u \in UserIds |-> userRow(u, IF u = "D" THEN Null ELSE "g1")]

ScoreFriends ==
  {[userId |-> "A", friendId |-> "B"], [userId |-> "C", friendId |-> "A"],
   [userId |-> "A", friendId |-> "D"]}

Queries == [userId : UserIds, scope : {"friends", "clan"}, offset : {<<>>}]

Init ==
  /\ users = ScoreUsers
  /\ friends = ScoreFriends
  /\ nights \in NightStores(ScorePool, MaxNights)
  /\ clock = ScoreClock
  /\ build \in {"current", "weekly"}
  /\ lb = IdleLb
  /\ issued = {}
  /\ resp = NoResp
  /\ replies = <<>>
  /\ up = IdleUp
  /\ fr = IdleAdds
  /\ del = IdleDel
  /\ hook = IdleHook

Next ==
  \/ LbStart(Queries)
  \/ LbNoClan
  \/ LbClanFound
  \/ LbClanMembers
  \/ LbFriends
  \/ LbNights
  \/ LbRespond

Spec == Init /\ [][Next]_vars

\* ------------------------------------------------------------------------
\* What the claims speak of, read off the store and the reply
\* ------------------------------------------------------------------------

\* the request has been answered with boards that went through scoring
Scored ==
  /\ lb.pc = "done"
  /\ resp.status = 200
  /\ build \in {"current", "weekly"}
  /\ "user.findMany.details" \in issued

Population == SeqRange(lb.targetUserIds)

InWindow(n) ==
  /\ DateLeq(lb.startOfWeek, n.date)
  /\ (lb.endOfWeek # NoDate => DateLt(n.date, lb.endOfWeek))

\* the filtered-in records of user u inside the window
ValidNightsOf(u) ==
  {n \in nights : n.userId = u /\ InWindow(n) /\ n.totalSleepMinutes >= 45}

PopValid == UNION {ValidNightsOf(u) : u \in Population}

BoardSet == {"survivalist", "hibernator", "tomRemmer", "rollingInTheDeep"}

RowsOf(b) == resp.leaderboards[b]

BoardUsers(b) == {RowsOf(b)[i].userId : i \in 1..Len(RowsOf(b))}

RowOf(b, u) == RowsOf(b)[CHOOSE i \in 1..Len(RowsOf(b)) : RowsOf(b)[i].userId = u]

\* the metric a board extracts from a record
MetricOn(b, n) ==
  IF b \in {"survivalist", "hibernator"} THEN n.totalSleepMinutes
  ELSE IF b = "tomRemmer" THEN n.remSleepMinutes
  ELSE n.deepSleepMinutes

\* m beats n on board b
Beats(b, m, n) ==
  IF b = "survivalist" THEN MetricOn(b, m) < MetricOn(b, n)
                       ELSE MetricOn(b, m) > MetricOn(b, n)

SameDay(n, m) == n.date.day = m.date.day

NumBetter(b, n) ==
  Cardinality({m \in PopValid : SameDay(n, m) /\ Beats(b, m, n)})

NumTied(b, n) ==
  Cardinality({m \in PopValid \ {n} :
                 SameDay(n, m) /\ MetricOn(b, m) = MetricOn(b, n)})

Award(rank) == IF rank = 0 THEN 3 ELSE IF rank = 1 THEN 2 ELSE IF rank = 2 THEN 1 ELSE 0

\* the points of user u on board b if every tie of a day went for u, and if
\* every tie went against u
UpperPoints(b, u) ==
  SetSum(ValidNightsOf(u), [n \in ValidNightsOf(u) |-> Award(NumBetter(b, n))])

LowerPoints(b, u) ==
  SetSum(ValidNightsOf(u),
         [n \in ValidNightsOf(u) |-> Award(NumBetter(b, n) + NumTied(b, n))])

\* C1: a user of the population with no filtered-in record (total >= 45) in
\* the window is on none of the four boards, and every row of a board has
\* nightsLogged >= 1.
C1_ZeroNightsAbsent ==
  (lb.pc = "done" /\ resp.status = 200 /\ build \in {"current", "weekly"}) =>
    \A b \in BoardSet :
      /\ \A i \in 1..Len(RowsOf(b)) : RowsOf(b)[i].nightsLogged >= 1
      /\ \A u \in Population : ValidNightsOf(u) = {} => u \notin BoardUsers(b)

\* a scored reply whose population holds a user whose only record in the
\* window is below 45 minutes, next to users who are listed
C1_Witness ==
  /\ Scored
  /\ \E u \in Population :
       /\ ValidNightsOf(u) = {}
       /\ \E n \in nights : n.userId = u /\ InWindow(n)
  /\ \A b \in BoardSet : RowsOf(b) # <<>>

\* C2 as stated: on every board the rows are in non-increasing order of points,
\* and adjacent rows with equal points are ordered by value, lower first on
\* survivalist and higher first on the other three.
C2_SortedWithTieBreak ==
  (lb.pc = "done" /\ resp.status = 200 /\ build \in {"current", "weekly"}) =>
    \A b \in BoardSet : \A i \in 1..(Len(RowsOf(b)) - 1) :
      LET r == RowsOf(b)[i]
          t == RowsOf(b)[i + 1]
      IN  /\ r.points >= t.points
          /\ r.points = t.points =>
               IF b = "survivalist" THEN r.value <= t.value ELSE r.value >= t.value

\* C3: points are awarded per day bucket (3, 2, 1 for ranks 0, 1, 2 and 0 from
\* rank 3 on) and summed over the days: a row's points lie between the sum of
\* the day awards with every tie of the day lost and the sum with every tie
\* won, so they are that sum exactly where no day has a tie; a user strictly
\* first on three days has 9 points.
C3_PointsPerDay ==
  Scored =>
    \A b \in BoardSet : \A u \in BoardUsers(b) :
      /\ LowerPoints(b, u) <= RowOf(b, u).points
      /\ RowOf(b, u).points <= UpperPoints(b, u)
      /\ ( /\ Cardinality(ValidNightsOf(u)) = 3
           /\ \A n \in ValidNightsOf(u) : NumBetter(b, n) + NumTied(b, n) = 0 )
         => RowOf(b, u).points = 9

\* Monday's bucket holds four filtered-in records, the tomRemmer row of the
\* record at rank 3 has 0 points, and a user strictly first on three days has
\* 9 points
C3_Witness ==
  /\ Scored
  /\ Cardinality({n \in PopValid : n.date.day = ScoreMonday}) = 4
  /\ \E u \in BoardUsers("tomRemmer") :
       /\ Cardinality(ValidNightsOf(u)) = 1
       /\ \E n \in ValidNightsOf(u) : NumBetter("tomRemmer", n) = 3
       /\ RowOf("tomRemmer", u).points = 0
  /\ \E u \in BoardUsers("tomRemmer") :
       /\ Cardinality(ValidNightsOf(u)) = 3
       /\ \A n \in ValidNightsOf(u) :
            NumBetter("tomRemmer", n) + NumTied("tomRemmer", n) = 0
       /\ RowOf("tomRemmer", u).points = 9

SumMetric(b, S) == SetSum(S, [n \in S |-> MetricOn(b, n)])

\* C4: a record below 45 minutes adds no row, no nightsLogged, no value and
\* takes no rank: on every board a user of the population is listed exactly
\* when a record of 45 minutes or more of theirs lies in the window,
\* nightsLogged counts those records, value sums their metric, and the points
\* are at least what the ranks among those records alone give.
C4_AntiCheat ==
  Scored =>
    \A b \in BoardSet : \A u \in Population :
      /\ u \in BoardUsers(b) <=> ValidNightsOf(u) # {}
      /\ u \in BoardUsers(b) =>
           /\ RowOf(b, u).nightsLogged = Cardinality(ValidNightsOf(u))
           /\ RowOf(b, u).value = SumMetric(b, ValidNightsOf(u))
           /\ RowOf(b, u).points >= LowerPoints(b, u)

\* a 44-minute record shares its day with a longer one whose owner still
\* takes the day's 3 survivalist points, and a 45-minute record is listed
\* with one night logged
C4_Witness ==
  /\ Scored
  /\ \E n \in nights, m \in PopValid :
       /\ n.userId \in Population /\ InWindow(n) /\ n.totalSleepMinutes = 44
       /\ SameDay(n, m)
       /\ Cardinality(ValidNightsOf(m.userId)) = 1
       /\ RowOf("survivalist", m.userId).points = 3
  /\ \E n \in PopValid :
       /\ n.totalSleepMinutes = 45
       /\ RowOf("hibernator", n.userId).nightsLogged = 1

\* the scenario of C5: the population is {A, B} and its records in the window
\* are A's 300/50/20 and B's 500/10/90 of one day
Scenario ==
  /\ Scored
  /\ Population = {"A", "B"}
  /\ \E d \in ScoreDays :
       {n \in nights : n.userId \in Population /\ InWindow(n)} =
         {mkNight("A", d, <<300, 50, 20>>), mkNight("B", d, <<500, 10, 90>>)}

Brief(b) ==
  [i \in 1..Len(RowsOf(b)) |->
     <<RowsOf(b)[i].userId, RowsOf(b)[i].points, RowsOf(b)[i].value>>]

Order(b) == [i \in 1..Len(RowsOf(b)) |-> RowsOf(b)[i].userId]

\* C5 as stated: survivalist lists A before B with A.points = 3, B.points = 0,
\* A.value = 300, B.value = 500; hibernator lists B before A with B.points = 3;
\* tomRemmer lists A before B; rollingInTheDeep lists B before A.
C5_ScenarioAsStated ==
  Scenario =>
    /\ Brief("survivalist") = <<<<"A", 3, 300>>, <<"B", 0, 500>>>>
    /\ Order("hibernator") = <<"B", "A">>
    /\ RowOf("hibernator", "B").points = 3
    /\ Order("tomRemmer") = <<"A", "B">>
    /\ Order("rollingInTheDeep") = <<"B", "A">>

\* C5 amended: as stated, but B, second of two on the day, has 2 points on
\* survivalist.
C5_Scenario ==
  Scenario =>
    /\ Brief("survivalist") = <<<<"A", 3, 300>>, <<"B", 2, 500>>>>
    /\ Order("hibernator") = <<"B", "A">>
    /\ RowOf("hibernator", "B").points = 3
    /\ Order("tomRemmer") = <<"A", "B">>
    /\ Order("rollingInTheDeep") = <<"B", "A">>

\* the scenario is answered, with a third user's record in the store
C5_Witness ==
  /\ Scenario
  /\ \E n \in nights : n.userId \notin Population

\* ------------------------------------------------------------------------
\* Specification SpecScope: the social graph varies, every user has one night
\* ------------------------------------------------------------------------

MaxFriendRows == 2

\* Friend rows the table may hold: no row joins a user to themselves
\* (friends.ts:34-38); a pair may be stored in either direction
FriendPool ==
  {[userId |-> "A", friendId |-> "B"], [userId |-> "B", friendId |-> "A"],
   [userId |-> "C", friendId |-> "A"], [userId |-> "A", friendId |-> "C"],
   [userId |-> "B", friendId |-> "C"], [userId |-> "D", friendId |-> "A"],
   [userId |-> "D", friendId |-> "B"]}

\* A and B are in group g1 or in none, C is in g1, D is in g2 or in none
ScopeUsers ==
  {[u \in UserIds |-> userRow(u, g[u])] :
     g \in [A : {Null, "g1"}, B : {Null, "g1"}, C : {"g1"}, D : {Null, "g2"}]}

ScopeNights ==
  {mkNight("A", ScoreMonday, <<300, 50, 20>>), mkNight("B", ScoreMonday, <<500, 10, 90>>),
   mkNight("C", ScoreTuesday, <<300, 40, 20>>), mkNight("D", ScoreMonday, <<45, 0, 0>>)}

ScopeQueries == [userId : {"A", "B"}, scope : {Null, "friends", "clan"}, offset : {<<>>}]

InitScope ==
  /\ users \in ScopeUsers
  /\ friends \in {S \in SUBSET FriendPool : Cardinality(S) <= MaxFriendRows}
  /\ nights = ScopeNights
  /\ clock = ScoreClock
  /\ build \in {"current", "weekly"}
  /\ lb = IdleLb
  /\ issued = {}
  /\ resp = NoResp
  /\ replies = <<>>
  /\ up = IdleUp
  /\ fr = IdleAdds
  /\ del = IdleDel
  /\ hook = IdleHook

NextScope ==
  \/ LbStart(ScopeQueries)
  \/ LbNoClan
  \/ LbClanFound
  \/ LbClanMembers
  \/ LbFriends
  \/ LbNights
  \/ LbRespond

SpecScope == InitScope /\ [][NextScope]_vars

\* the users joined to u by a Friend row, in either direction
FriendsOf(u) ==
  {v \in UserIds : \E r \in friends :
     \/ (r.userId = u /\ r.friendId = v)
     \/ (r.friendId = u /\ r.userId = v)}

\* the population has been resolved
Resolved ==
  /\ build \in {"current", "weekly"}
  /\ lb.pc \in {"findNights", "findUsers", "done"}
  /\ "sleepNight.findMany" \in issued

\* C6: with scope=friends the population is the requester and the users
\* joined to the requester by a Friend row in either direction, nobody else;
\* only they can be on a board, and with no Friend row of the requester every
\* board has at most one row.
C6_FriendsScope ==
  (Resolved /\ lb.scope = "friends") =>
    /\ Population = {lb.userId} \cup FriendsOf(lb.userId)
    /\ lb.pc = "done" =>
         \A b \in BoardSet :
           /\ BoardUsers(b) \subseteq {lb.userId} \cup FriendsOf(lb.userId)
           /\ FriendsOf(lb.userId) = {} => Len(RowsOf(b)) <= 1

\* the requester is userId of one Friend row and friendId of another, a third
\* user with a night in the window is no friend, and both friends are listed
C6_Witness ==
  /\ Scored /\ lb.scope = "friends"
  /\ \E r, t \in friends :
       /\ r.userId = lb.userId /\ t.friendId = lb.userId
       /\ r.friendId # t.userId
       /\ {r.friendId, t.userId} \subseteq BoardUsers("survivalist")
  /\ \E n \in nights : InWindow(n) /\ n.userId \notin Population

\* a requester without a group row value
NoGroup(u) == u \notin DOMAIN users \/ users[u].groupId = Null

\* C7: with scope=clan and a requester who has no group, neither the
\* sleep-record query nor the profile query is ever issued, and the reply is
\* the four boards, all empty.
C7_NoClanNoFetch ==
  (build \in {"current", "weekly"} /\ lb.pc # "idle" /\ lb.scope = "clan"
     /\ NoGroup(lb.userId)) =>
    /\ "sleepNight.findMany" \notin issued
    /\ "user.findMany.details" \notin issued
    /\ "user.findMany.members" \notin issued
    /\ lb.pc \in {"findUnique", "done"}
    /\ lb.pc = "done" =>
         /\ resp.status = 200
         /\ DOMAIN resp.leaderboards = BoardSet
         /\ \A b \in BoardSet : RowsOf(b) = <<>>

\* the request of a requester without a group has been answered, although
\* the requester has a night in the window and a friend
C7_Witness ==
  /\ lb.pc = "done" /\ lb.scope = "clan" /\ NoGroup(lb.userId)
  /\ resp.status = 200
  /\ ValidNightsOf(lb.userId) # {}
  /\ FriendsOf(lb.userId) # {}

GroupOf(u) == users[u].groupId

\* C8: with scope=clan and a requester who has a group, the population is the
\* set of users of that group: the requester is in it, and a friend of the
\* requester outside the group is not, nor on any board.
C8_ClanScope ==
  (Resolved /\ lb.scope = "clan") =>
    /\ ~NoGroup(lb.userId)
    /\ Population = {u \in DOMAIN users : GroupOf(u) = GroupOf(lb.userId)}
    /\ lb.userId \in Population
    /\ \A v \in FriendsOf(lb.userId) :
         GroupOf(v) # GroupOf(lb.userId) =>
           /\ v \notin Population
           /\ lb.pc = "done" => \A b \in BoardSet : v \notin BoardUsers(b)

\* the requester's group has another member who is no friend, a friend with
\* a night in the window is outside the group, and the boards list the group
C8_Witness ==
  /\ Scored /\ lb.scope = "clan"
  /\ \E v \in FriendsOf(lb.userId) :
       GroupOf(v) # GroupOf(lb.userId) /\ ValidNightsOf(v) # {}
  /\ \E w \in Population \ ({lb.userId} \cup FriendsOf(lb.userId)) :
       w \in BoardUsers("hibernator")
  /\ lb.userId \in BoardUsers("hibernator")

\* ------------------------------------------------------------------------
\* Specification SpecWindow: the clock, the offset and the build vary
\* ------------------------------------------------------------------------

MaxOffset == 2

MaxClockAhead == 7

\* Sunday 2025-12-28 up to MaxClockAhead days past Monday 2025-12-29
ClockDays == (ScoreMonday - 1)..(ScoreMonday + MaxClockAhead)

\* 00:00:00.000, 12:00:00.000 and 23:59:59.999
ClockTimes == {0, 43200000, 86399999}

\* the nights of ScopeNights, one of the Monday after and one of the Monday
\* before
WindowNights ==
  ScopeNights \cup
    {mkNight("A", ScoreMonday + 7, <<420, 90, 110>>),
     mkNight("B", ScoreMonday - 7, <<480, 60, 70>>)}

WindowQueries ==
  [userId : {"A", "D"}, scope : {"friends", "clan"}, offset : {<<>>} \cup {<<k>> : k \in 0..MaxOffset}]

InitWindow ==
  /\ users = ScoreUsers
  /\ friends = ScoreFriends
  /\ nights = WindowNights
  /\ clock \in {MkDate(d, ms) : d \in ClockDays, ms \in ClockTimes}
  /\ build \in {"current", "weekly", "workweek"}
  /\ lb = IdleLb
  /\ issued = {}
  /\ resp = NoResp
  /\ replies = <<>>
  /\ up = IdleUp
  /\ fr = IdleAdds
  /\ del = IdleDel
  /\ hook = IdleHook

NextWindow ==
  \/ LbStart(WindowQueries)
  \/ LbNoClan
  \/ LbClanFound
  \/ LbClanMembers
  \/ LbFriends
  \/ LbNights
  \/ LbRespond

SpecWindow == InitWindow /\ [][NextWindow]_vars

\* 0 (Sunday) .. 6 (Saturday), counted from Monday 2025-12-29
Weekday(day) == (day - ScoreMonday + 1) % 7

\* 00:00 UTC of the latest Monday at or before the instant t
MondayAtOrBefore(t) == MkDate(t.day - ((Weekday(t.day) + 6) % 7), 0)

PlusDays(t, n) == MkDate(t.day + n, t.ms)

\* the week offset the request asks for
AskedOffset == IF lb.query.offset = <<>> THEN 0 ELSE lb.query.offset[1]

C10_OffsetShift ==
  (lb.pc # "idle" /\ build \in {"current", "weekly"}) =>
    lb.startOfWeek = PlusDays(MondayAtOrBefore(lb.now), -(7 * AskedOffset))

\* C10 on the "weekly" build alone, the build that reads the offset
C10_OffsetShiftWeekly ==
  (lb.pc # "idle" /\ build = "weekly") =>
    /\ lb.startOfWeek = PlusDays(MondayAtOrBefore(lb.now), -(7 * AskedOffset))
    /\ lb.endOfWeek = PlusDays(lb.startOfWeek, 7)

\* the records of 45 minutes or more of user u dated in
\* [start, start + 7 days)
SevenDayNightsOf(u) ==
  {n \in nights :
     /\ n.userId = u /\ n.totalSleepMinutes >= 45
     /\ DateLeq(lb.startOfWeek, n.date)
     /\ DateLt(n.date, PlusDays(lb.startOfWeek, 7))}

\* C11 as stated: a record of a population member is scored if and only if
\* its date d satisfies start <= d < start + 7 days; on every board a user is
\* listed exactly when such a record exists, and nightsLogged and value count
\* those records and no other: a record dated at start counts, a record dated
\* at the next Monday 00:00 UTC or later does not.
C11_HalfOpenWindow ==
  Scored =>
    \A b \in BoardSet : \A u \in Population :
      /\ u \in BoardUsers(b) <=> SevenDayNightsOf(u) # {}
      /\ u \in BoardUsers(b) =>
           /\ RowOf(b, u).nightsLogged = Cardinality(SevenDayNightsOf(u))
           /\ RowOf(b, u).value = SumMetric(b, SevenDayNightsOf(u))

\* C11 on the "weekly" build alone, whose nights query has both bounds
C11_HalfOpenWeekly == build = "weekly" => C11_HalfOpenWindow

\* the weekly build has answered with a record dated at start listed and a
\* record dated at start + 7 days left out
C11_WeeklyReached ==
  /\ Scored /\ build = "weekly"
  /\ \E n \in nights : n.userId \in Population /\ n.date = lb.startOfWeek
                         /\ n.userId \in BoardUsers("hibernator")
  /\ \E n \in nights : n.userId \in Population
                         /\ n.date = PlusDays(lb.startOfWeek, 7)
                         /\ n.totalSleepMinutes >= 45

\* ------------------------------------------------------------------------
\* Specification SpecRepeat: several requests against one unchanged store
\* ------------------------------------------------------------------------

MaxRequests == 2

\* a Monday on which A and C tie on total and deep minutes; A and C alone on
\* a day each with the same total and deep minutes; a week without any tie
TiedDayStore ==
  {mkNight("A", ScoreMonday, <<300, 50, 20>>),
   mkNight("C", ScoreMonday, <<300, 40, 20>>),
   mkNight("B", ScoreMonday, <<500, 10, 90>>)}

TiedRowStore ==
  {mkNight("A", ScoreTuesday, <<300, 50, 20>>),
   mkNight("C", ScoreMonday, <<300, 40, 20>>)}

UntiedStore ==
  {mkNight("A", ScoreMonday, <<300, 50, 20>>),
   mkNight("B", ScoreMonday, <<500, 10, 90>>),
   mkNight("A", ScoreTuesday, <<300, 50, 20>>)}

RepeatQueries == [userId : {"A", "D"}, scope : {"friends", "clan"}, offset : {<<>>}]

InitRepeat ==
  /\ users = ScoreUsers
  /\ friends = ScoreFriends
  /\ nights \in {TiedDayStore, TiedRowStore, UntiedStore}
  /\ clock = ScoreClock
  /\ build \in {"current", "weekly"}
  /\ lb = IdleLb
  /\ issued = {}
  /\ resp = NoResp
  /\ replies = <<>>
  /\ up = IdleUp
  /\ fr = IdleAdds
  /\ del = IdleDel
  /\ hook = IdleHook

NextRepeat ==
  \/ LbStart(RepeatQueries)
  \/ LbNoClan
  \/ LbClanFound
  \/ LbClanMembers
  \/ LbFriends
  \/ LbNights
  \/ LbRespond
  \/ (Len(replies) < MaxRequests /\ LbNext)

SpecRepeat == InitRepeat /\ [][NextRepeat]_vars

SameRequest(r, q) == r.userId = q.userId /\ r.query = q.query /\ r.now = q.now

\* C12 as stated: two runs of the computation for the same requester, scope
\* and window against the unchanged store send identical output: the same
\* rows in the same order with the same points, value and nightsLogged on
\* each board.
C12_Idempotent ==
  \A i, j \in DOMAIN replies :
    SameRequest(replies[i], replies[j]) => replies[i].body = replies[j].body

\* C12 on a store whose days and rows have no tie
C12_IdempotentUntied == nights = UntiedStore => C12_Idempotent

\* two requests for the same boards of the untied store have been answered
C12_UntiedReached ==
  /\ nights = UntiedStore
  /\ Len(replies) = 2
  /\ SameRequest(replies[1], replies[2])
  /\ Len(replies[1].body.leaderboards["hibernator"]) = 2

\* ------------------------------------------------------------------------
\* Specification SpecUpload: uploads by a user with a User row (A) and by one
\* without (D)
\* ------------------------------------------------------------------------

\* <<total, REM, deep>> of a body: 300 / 50 / 20 minutes, 444.6 / 40.5 / 89.5
\* minutes, 0.4 / 0 / 0 minutes, and four that fail a check
Measurements ==
  {<<<<3000>>, <<500>>, <<200>>>>, <<<<4446>>, <<405>>, <<895>>>>,
   <<<<4>>, <<0>>, <<0>>>>,
   <<<<>>, <<500>>, <<200>>>>, <<<<0>>, <<500>>, <<200>>>>,
   <<<<3000>>, <<-10>>, <<200>>>>, <<<<3000>>, <<500>>, <<>>>>}

\* Monday 00:00 and 12:00 UTC, Tuesday 00:00 UTC, and no date
UploadDates ==
  {MkDate(ScoreMonday, 0), MkDate(ScoreMonday, 43200000),
   MkDate(ScoreTuesday, 0), NoDate}

UploadBodies ==
  {[date |-> d, totalSleepMinutes |-> m[1], remSleepMinutes |-> m[2],
    deepSleepMinutes |-> m[3]] : d \in UploadDates, m \in Measurements}

Uploaders == {"A", "D"}

InitUpload ==
  /\ users = [u \in {"A", "B", "C"} |-> ScoreUsers[u]]
  /\ friends = {[userId |-> "A", friendId |-> "B"], [userId |-> "C", friendId |-> "A"]}
  /\ nights = {}
  /\ clock = ScoreClock
  /\ build = "current"
  /\ lb = IdleLb
  /\ issued = {}
  /\ resp = NoResp
  /\ replies = <<>>
  /\ up = IdleUp
  /\ fr = IdleAdds
  /\ del = IdleDel
  /\ hook = IdleHook

NextUpload ==
  \/ UpReject(Uploaders, UploadBodies)
  \/ UpStart(Uploaders, UploadBodies)
  \/ UpUser
  \/ UpNight
  \/ UpNext

SpecUpload == InitUpload /\ [][NextUpload]_vars

\* the minutes a body asks to store: each number rounded to the nearest
\* integer
Asked(body) ==
  <<(body.totalSleepMinutes[1] + 5) \div 10, (body.remSleepMinutes[1] + 5) \div 10,
    (body.deepSleepMinutes[1] + 5) \div 10>>

MinutesOf(n) == <<n.totalSleepMinutes, n.remSleepMinutes, n.deepSleepMinutes>>

\* the records of user u dated on the UTC calendar day of the instant t
OnDayOf(S, u, t) == {n \in S : n.userId = u /\ n.date.day = t.day}

\* the step stores an upload
Stored == up.pc = "upsertNight" /\ up'.pc = "done"

\* C13: the store holds at most one record per (user, UTC calendar day) and
\* every stored date is at 00:00 UTC; the step that stores an upload leaves
\* exactly one record of the uploader on the body's day, carrying the body's
\* minutes, adds a record only if the day had none, and touches no other
\* record: storing a measurement the store already holds changes nothing.
C13_UpsertPerDay ==
  /\ [](\A n, m \in nights :
          /\ n.date.ms = 0
          /\ (n.userId = m.userId /\ n.date.day = m.date.day) => n = m)
  /\ [][Stored =>
          LET old == OnDayOf(nights, up.userId, up.body.date)
              new == OnDayOf(nights', up.userId, up.body.date)
          IN  /\ Cardinality(new) = 1
              /\ \A n \in new : MinutesOf(n) = Asked(up.body)
              /\ nights' \ new = nights \ old
              /\ Cardinality(nights') =
                   Cardinality(nights) + (IF old = {} THEN 0 ELSE -1) + 1
              /\ (\E n \in old : MinutesOf(n) = Asked(up.body)) => nights' = nights]_vars

\* a second upload for a day, sent at noon with other minutes, has replaced
\* the minutes of the day's record, and the user has a record of another day
C13_Witness ==
  /\ up.pc = "done" /\ up.branch = "update"
  /\ up.body.date.ms > 0
  /\ \E n \in nights :
       /\ n.userId = up.userId /\ n.date = MkDate(up.body.date.day, 0)
       /\ MinutesOf(n) = <<445, 41, 90>>
  /\ \E n \in nights : n.userId = up.userId /\ n.date.day # up.body.date.day
  /\ Cardinality(nights) = 2

\* ------------------------------------------------------------------------
\* Specification SpecServer: one leaderboard request while uploads go on
\* ------------------------------------------------------------------------

ServerBodies ==
  {[date |-> MkDate(ScoreMonday, 0), totalSleepMinutes |-> m[1],
    remSleepMinutes |-> m[2], deepSleepMinutes |-> m[3]] :
     m \in {<<<<3000>>, <<500>>, <<200>>>>, <<<<4446>>, <<405>>, <<895>>>>,
            <<<<0>>, <<500>>, <<200>>>>}}

ServerQueries ==
  [userId : {"A"}, scope : {"friends", "clan"}, offset : {<<>>}] \cup
  [userId : {"D"}, scope : {"clan"}, offset : {<<>>}]

InitServer ==
  /\ users = [u \in {"A", "B", "C"} |-> ScoreUsers[u]]
  /\ friends = {[userId |-> "A", friendId |-> "B"], [userId |-> "C", friendId |-> "A"]}
  /\ nights = {mkNight("B", ScoreMonday, <<500, 10, 90>>),
               mkNight("C", ScoreTuesday, <<44, 30, 10>>)}
  /\ clock = ScoreClock
  /\ build \in {"current", "weekly"}
  /\ lb = IdleLb
  /\ issued = {}
  /\ resp = NoResp
  /\ replies = <<>>
  /\ up = IdleUp
  /\ fr = IdleAdds
  /\ del = IdleDel
  /\ hook = IdleHook

NextServer ==
  \/ LbStart(ServerQueries)
  \/ LbNoClan
  \/ LbClanFound
  \/ LbClanMembers
  \/ LbFriends
  \/ LbNights
  \/ LbRespond
  \/ UpReject(Uploaders, ServerBodies)
  \/ UpStart(Uploaders, ServerBodies)
  \/ UpUser
  \/ UpNight
  \/ UpNext

SpecServer == InitServer /\ [][NextServer]_vars

\* the step is one of the leaderboard request
LbStep == lb' # lb \/ resp' # resp \/ issued' # issued \/ replies' # replies

\* C14: no step of a leaderboard request writes: users (with their group
\* membership), friend rows and sleep records are the same after the step as
\* before it, whichever scope is used and whether the request ends in boards
\* or in the empty not-in-a-clan reply.
C14_NoWrites ==
  [][LbStep => (users' = users /\ friends' = friends /\ nights' = nights)]_vars

\* a request has been answered with boards while uploads have changed the
\* store and the rejected 44-minute night is still stored
C14_Witness ==
  /\ lb.pc = "done" /\ resp.status = 200
  /\ Len(resp.leaderboards["hibernator"]) >= 2
  /\ "D" \in DOMAIN users
  /\ \E n \in nights : n.userId = "A"
  /\ \E n \in nights : n.totalSleepMinutes = 44

\* the empty not-in-a-clan reply has been sent for D, whose User row an
\* upload created
C14_WitnessNoClan ==
  /\ lb.pc = "done" /\ lb.userId = "D" /\ resp.status = 200
  /\ issued = {"user.findUnique"}
  /\ "D" \in DOMAIN users

\* ------------------------------------------------------------------------
\* Specification SpecInput: requests with well-formed and malformed queries
\* ------------------------------------------------------------------------

InputQueries ==
  [userId : {"A", "D"}, scope : {Null, "friends", "clan", "world"},
   offset : {<<>>, <<0>>, <<1>>, <<-1>>}]

InitInput ==
  /\ users = ScoreUsers
  /\ friends = ScoreFriends
  /\ nights = WindowNights
  /\ clock = ScoreClock
  /\ build \in {"current", "weekly"}
  /\ lb = IdleLb
  /\ issued = {}
  /\ resp = NoResp
  /\ replies = <<>>
  /\ up = IdleUp
  /\ fr = IdleAdds
  /\ del = IdleDel
  /\ hook = IdleHook

NextInput ==
  \/ LbStart(InputQueries)
  \/ LbNoClan
  \/ LbClanFound
  \/ LbClanMembers
  \/ LbFriends
  \/ LbNights
  \/ LbRespond

SpecInput == InitInput /\ [][NextInput]_vars

\* the query names a scope other than friends and clan, or a negative offset
Malformed(q) ==
  \/ q.scope \notin {Null, "friends", "clan"}
  \/ (q.offset # <<>> /\ q.offset[1] < 0)

\* C15 as stated: a request whose scope is not friends or clan, or whose week
\* offset is negative, is rejected: no store query is issued for it and no
\* boards are sent.
C15_MalformedRejected ==
  (lb.pc # "idle" /\ Malformed(lb.query)) =>
    /\ issued = {}
    /\ resp = NoResp \/ resp.status # 200

\* what the builds do instead: an unknown scope is answered as scope=friends
\* and a negative offset moves the window forward
C15_MalformedServed ==
  (lb.pc # "idle" /\ Malformed(lb.query)) =>
    /\ lb.query.scope \notin {Null, "friends", "clan"} =>
         /\ lb.scope = lb.query.scope
         /\ "friend.findMany" \in issued
         /\ lb.pc \in {"findNights", "findUsers", "done"} =>
              Population = SeqRange(friendTargets(lb.userId, "asc"))
    /\ (build = "weekly" /\ lb.query.offset # <<>>) =>
         lb.startOfWeek = PlusDays(MondayAtOrBefore(lb.now), -(7 * lb.query.offset[1]))
    /\ lb.pc = "done" => resp.status = 200

\* ------------------------------------------------------------------------
\* Specification SpecFail: a request any of whose store queries may fail
\* ------------------------------------------------------------------------

FailQueries == [userId : {"A", "D"}, scope : {"friends", "clan"}, offset : {<<>>}]

InitFail ==
  /\ users = ScoreUsers
  /\ friends = ScoreFriends
  /\ nights \in {TiedDayStore, UntiedStore}
  /\ clock = ScoreClock
  /\ build \in {"current", "weekly"}
  /\ lb = IdleLb
  /\ issued = {}
  /\ resp = NoResp
  /\ replies = <<>>
  /\ up = IdleUp
  /\ fr = IdleAdds
  /\ del = IdleDel
  /\ hook = IdleHook

NextFail ==
  \/ LbStart(FailQueries)
  \/ LbNoClan
  \/ LbClanFound
  \/ LbClanMembers
  \/ LbFriends
  \/ LbNights
  \/ LbRespond
  \/ LbFail

SpecFail == InitFail /\ [][NextFail]_vars

\* C16: once a store query of a request has failed, the request is over with
\* an error reply that carries no boards, and no further query is issued for
\* it (no retry); boards are sent only when no query failed, and then they
\* are computed from all the records the query matches.
C16_FailureAborts ==
  /\ [](lb.error # Null =>
          /\ lb.pc = "done"
          /\ resp.status >= 500
          /\ "leaderboards" \notin DOMAIN resp
          /\ \A i \in DOMAIN replies : "leaderboards" \notin DOMAIN replies[i].body)
  /\ []((lb.pc = "done" /\ "leaderboards" \in DOMAIN resp
           /\ "sleepNight.findMany" \in issued) =>
          /\ lb.error = Null
          /\ SeqRange(lb.rawNights) =
               {n \in nights : n.userId \in Population /\ InWindow(n)})
  /\ [][lb.error # Null => (issued' = issued /\ resp' = resp /\ lb' = lb)]_vars

\* the record fetch of a request with a resolved population of three has
\* failed and the error reply is out
C16_Witness ==
  /\ lb.error = "sleepNight.findMany"
  /\ Len(lb.targetUserIds) >= 3
  /\ lb.pc = "done" /\ resp.status = 500
  /\ Len(replies) = 1

\* the records of 45 minutes or more of user u dated in [start, now]
ToDateNightsOf(u) ==
  {n \in nights :
     /\ n.userId = u /\ n.totalSleepMinutes >= 45
     /\ DateLeq(lb.startOfWeek, n.date)
     /\ DateLeq(n.date, lb.now)}

\* a record of the population is dated later than the request instant
FutureRecord ==
  \E n \in nights : n.userId \in Population /\ DateLt(lb.now, n.date)

\* C17 as stated, on the build whose comment names the window "Mon 00:00 UTC
\* -> Now": the window ends at now, so a record of a population member dated
\* later than the request instant is scored on no board; a user is listed
\* exactly when a record of theirs lies in [start, now], and nightsLogged and
\* value count those records alone.
C17_WeekToDate ==
  (Scored /\ build = "current") =>
    \A b \in BoardSet : \A u \in Population :
      /\ u \in BoardUsers(b) <=> ToDateNightsOf(u) # {}
      /\ u \in BoardUsers(b) =>
           /\ RowOf(b, u).nightsLogged = Cardinality(ToDateNightsOf(u))
           /\ RowOf(b, u).value = SumMetric(b, ToDateNightsOf(u))

\* C17 when the store holds no record dated after now
C17_WithoutFutureRecords == ~FutureRecord => C17_WeekToDate

\* the current build has answered with a board row and no record lies after
\* now
C17_PastOnlyReached ==
  /\ Scored /\ build = "current" /\ ~FutureRecord
  /\ Len(RowsOf("hibernator")) >= 1

\* the rows of board b when its variant is computed alone, first on the
\* buckets as the grouping step left them
boardAlone(b) ==
  calculateBoard(boardMetric(b), boardAscending(b), nightsByDateOf(lb.rawNights),
                 lb.targetUserIds, findUserMap(SeqRange(lb.targetUserIds)),
                 build).rows

\* two scored records of one day have the same value of board b's metric
TiedOn(b) ==
  \E n, m \in PopValid : n # m /\ SameDay(n, m) /\ MetricOn(b, n) = MetricOn(b, m)

\* C18 as stated: the four variant computations are independent; the rows of
\* each board, with their points and order, are those of the variant computed
\* alone, also when records of a day tie on the board's metric.
C18_VariantsIndependent ==
  Scored => \A b \in BoardSet : RowsOf(b) = boardAlone(b)

\* C18 for the boards on whose metric no two records of a day tie
C18_IndependentUntied ==
  Scored => \A b \in BoardSet : ~TiedOn(b) => RowsOf(b) = boardAlone(b)

\* a reply with three rows on a board without a tie, next to a board with one
C18_UntiedReached ==
  /\ Scored
  /\ ~TiedOn("tomRemmer") /\ TiedOn("rollingInTheDeep")
  /\ Len(RowsOf("tomRemmer")) >= 3

\* the boards of the request had the store returned the population's nights
\* in the order ord
boardsFetched(ord) ==
  fourBoards(fetchNights(lb.targetUserIds, lb.startOfWeek, lb.endOfWeek, ord),
             lb.targetUserIds, findUserMap(SeqRange(lb.targetUserIds)), build)

PointsOn(rows) == {<<rows[i].userId, rows[i].points>> : i \in 1..Len(rows)}

\* C19 as stated: when two records of a day bucket have the same metric
\* value, which of them takes the higher rank is fixed by the records and
\* does not depend on the order in which the store returned them: every user
\* has the same points on every board for every order of the fetched rows.
C19_TieRankDeterministic ==
  Scored =>
    \A ord \in QueryOrders : \A b \in BoardSet :
      PointsOn(RowsOf(b)) = PointsOn(boardsFetched(ord)[b])

\* C19 for the boards on whose metric no two records of a day tie
C19_UntiedDeterministic ==
  Scored =>
    \A ord \in QueryOrders : \A b \in BoardSet :
      ~TiedOn(b) => RowsOf(b) = boardsFetched(ord)[b]

\* the population of the request had the store returned the friend rows or
\* the clan members in the order ord
targetsResolved(ord) ==
  IF lb.scope = "clan" THEN clanTargets(lb.groupId, ord)
                       ELSE friendTargets(lb.userId, ord)

\* the boards of the request over that population
boardsResolved(ord) ==
  fourBoards(lb.rawNights, targetsResolved(ord),
             findUserMap(SeqRange(lb.targetUserIds)), build)

PlaceOf(rows, u) == CHOOSE i \in 1..Len(rows) : rows[i].userId = u

RowTie(r, q) == r.points = q.points /\ r.value = q.value

\* C20 as stated: two rows of a board with equal points and equal value keep
\* one relative order, whatever the order in which the store returned the
\* friend rows or the clan members.
C20_RowTieDeterministic ==
  Scored =>
    \A ord \in QueryOrders : \A b \in BoardSet :
      \A i, j \in 1..Len(RowsOf(b)) :
        (i < j /\ RowTie(RowsOf(b)[i], RowsOf(b)[j])) =>
          PlaceOf(boardsResolved(ord)[b], RowsOf(b)[i].userId) <
            PlaceOf(boardsResolved(ord)[b], RowsOf(b)[j].userId)

\* C20 for the boards of the "current" build without such a pair of rows:
\* their order is the same for every order of the population
C20_UntiedRowsFixed ==
  (Scored /\ build = "current") =>
    \A ord \in QueryOrders : \A b \in BoardSet :
      (\A i, j \in 1..Len(RowsOf(b)) :
         i # j => ~RowTie(RowsOf(b)[i], RowsOf(b)[j])) =>
        RowsOf(b) = boardsResolved(ord)[b]

\* ------------------------------------------------------------------------
\* nightsLogged and value of a row
\* ------------------------------------------------------------------------

\* the days of the window on which user u has a filtered-in record
LoggedDays(u) == {n.date.day : n \in ValidNightsOf(u)}

\* C21: nightsLogged does not depend on the metric: a user of the population
\* is on all four boards or on none, and on each board the row's nightsLogged
\* is the number of distinct days of the window on which the user has a
\* record of 45 minutes or more.
C21_NightsLoggedPerUser ==
  Scored =>
    \A u \in Population :
      /\ \A b, c \in BoardSet : u \in BoardUsers(b) <=> u \in BoardUsers(c)
      /\ \A b \in BoardSet :
           u \in BoardUsers(b) =>
             RowOf(b, u).nightsLogged = Cardinality(LoggedDays(u))

\* a user whose only record has 0 REM and 0 deep minutes is listed on the
\* tomRemmer and rollingInTheDeep boards with one night, next to a user with
\* three nights on every board
C21_Witness ==
  /\ Scored
  /\ \E u \in Population :
       /\ Cardinality(ValidNightsOf(u)) = 1
       /\ \A n \in ValidNightsOf(u) :
            n.remSleepMinutes = 0 /\ n.deepSleepMinutes = 0
       /\ \A b \in BoardSet :
            u \in BoardUsers(b) /\ RowOf(b, u).nightsLogged = 1
  /\ \E u \in Population :
       \A b \in BoardSet : u \in BoardUsers(b) /\ RowOf(b, u).nightsLogged = 3

\* C22: the value of a row is the sum of the board's metric (total minutes on
\* survivalist and hibernator, REM minutes on tomRemmer, deep minutes on
\* rollingInTheDeep) over all filtered-in records of the user in the window,
\* the records of days that earned the user 0 points included.
C22_ValueSum ==
  Scored =>
    \A b \in BoardSet : \A u \in BoardUsers(b) :
      RowOf(b, u).value = SumMetric(b, ValidNightsOf(u))

\* a user is fourth on a day of a board with a positive metric, so the day
\* earns 0 points, has a second day, and the row's value counts both; the
\* REM, deep and total sums of some user differ
C22_Witness ==
  /\ Scored
  /\ \E b \in BoardSet : \E u \in BoardUsers(b) :
       /\ Cardinality(ValidNightsOf(u)) >= 2
       /\ \E n \in ValidNightsOf(u) :
            /\ NumBetter(b, n) >= 3
            /\ MetricOn(b, n) > 0
            /\ RowOf(b, u).value > SumMetric(b, ValidNightsOf(u) \ {n})
  /\ \E u \in BoardUsers("hibernator") :
       /\ RowOf("hibernator", u).value # RowOf("tomRemmer", u).value
       /\ RowOf("tomRemmer", u).value # RowOf("rollingInTheDeep", u).value

\* ------------------------------------------------------------------------
\* Ingestion validation
\* ------------------------------------------------------------------------

\* an upload body as the claim describes the ones to reject
InvalidUpload(body) ==
  \/ body.date = NoDate
  \/ ~isFinite(body.totalSleepMinutes) \/ body.totalSleepMinutes[1] <= 0
  \/ ~isFinite(body.remSleepMinutes) \/ body.remSleepMinutes[1] < 0
  \/ ~isFinite(body.deepSleepMinutes) \/ body.deepSleepMinutes[1] < 0

\* the step takes an upload in
UpTaken == up.pc = "idle" /\ up'.pc # "idle"

\* C27 as stated: an upload whose total is not a finite number above 0, whose
\* REM or deep minutes are negative or not finite, or whose date does not
\* parse, is answered 400 and no user and no record is created or changed
\* for it; and every stored record has total minutes greater than 0.
C27_IngestionValidation ==
  /\ [][(UpTaken /\ InvalidUpload(up'.body)) =>
          (up'.pc = "done" /\ up'.status = 400)]_vars
  /\ [][(users' # users \/ nights' # nights) => ~InvalidUpload(up.body)]_vars
  /\ [](\A n \in nights : n.totalSleepMinutes > 0)

\* C27 without its consequence: invalid uploads are answered 400 and write
\* nothing, and every stored record has the rounded minutes of a valid body,
\* which are 0 or more
C27_InvalidRejected ==
  /\ [][(UpTaken /\ InvalidUpload(up'.body)) =>
          (up'.pc = "done" /\ up'.status = 400 /\ up'.error # Null)]_vars
  /\ [][(users' # users \/ nights' # nights) => ~InvalidUpload(up.body)]_vars
  /\ [](\A n \in nights :
          n.totalSleepMinutes >= 0 /\ n.remSleepMinutes >= 0 /\ n.deepSleepMinutes >= 0)

\* an upload with a non-finite deep value has been answered 400 while the
\* store holds a record
C27_RejectReached ==
  /\ up.pc = "done" /\ up.status = 400
  /\ up.error = "Invalid deepSleepMinutes"
  /\ nights # {}

\* ------------------------------------------------------------------------
\* One row per user, one stat per user and day
\* ------------------------------------------------------------------------

\* the day buckets the request scored
Buckets == nightsByDateOf(lb.rawNights)

\* C28: no board has two rows with the same userId and no day bucket holds
\* two stats of the same user, whatever friend rows the table holds (a pair
\* stored in both directions included) and whatever the clan membership.
C28_NoDuplicateRows ==
  Scored =>
    /\ \A b \in BoardSet : \A i, j \in 1..Len(RowsOf(b)) :
         RowsOf(b)[i].userId = RowsOf(b)[j].userId => i = j
    /\ \A k \in DOMAIN Buckets : \A i, j \in 1..Len(Buckets[k]) :
         Buckets[k][i].userId = Buckets[k][j].userId => i = j

\* the friend table holds a pair in both directions, one end asked for the
\* friends board and the other end is listed on it
C28_Witness ==
  /\ Scored
  /\ lb.scope = "friends"
  /\ \E f, g \in friends :
       /\ f.userId = g.friendId /\ f.friendId = g.userId
       /\ f.userId = lb.userId
       /\ f.friendId \in BoardUsers("hibernator")

\* ------------------------------------------------------------------------
\* Point conservation
\* ------------------------------------------------------------------------

\* the filtered-in records of the population on day d
DayRecords(d) == {n \in PopValid : n.date.day = d}

ScoredDays == {n.date.day : n \in PopValid}

\* the awards of the first min(n, 3) ranks of a bucket of n records
BucketAward(n) == IF n = 1 THEN 3 ELSE IF n = 2 THEN 5 ELSE 6

PointsTotal(b) ==
  SetSum(1..Len(RowsOf(b)), [i \in 1..Len(RowsOf(b)) |-> RowsOf(b)[i].points])

\* C29: on every board the points of all rows add up to the sum, over the
\* day buckets, of the awards of the first min(n, 3) ranks of a bucket of n
\* filtered-in records (3, 5, 6 for n = 1, 2, 3 or more), and every row has
\* 0 <= points <= 3 * nightsLogged.
C29_PointConservation ==
  Scored =>
    \A b \in BoardSet :
      /\ PointsTotal(b) =
           SetSum(ScoredDays,
                  [d \in ScoredDays |-> BucketAward(Cardinality(DayRecords(d)))])
      /\ \A i \in 1..Len(RowsOf(b)) :
           /\ 0 <= RowsOf(b)[i].points
           /\ RowsOf(b)[i].points <= 3 * RowsOf(b)[i].nightsLogged

\* a bucket of four records, one of two and a row with 0 points: the boards
\* hand out 11 points each
C29_Witness ==
  /\ Scored
  /\ \E d \in ScoredDays : Cardinality(DayRecords(d)) = 4
  /\ \E d \in ScoredDays : Cardinality(DayRecords(d)) = 2
  /\ \A b \in BoardSet : PointsTotal(b) = 11
  /\ \E i \in 1..Len(RowsOf("tomRemmer")) : RowsOf("tomRemmer")[i].points = 0

\* ------------------------------------------------------------------------
\* Specification SpecFriend: friend-add requests handled concurrently
\* ------------------------------------------------------------------------

Adders == {"A", "B"}

\* the emails of A, B and D, one nobody has, and no email
AddEmails == {"a@x", "b@x", "d@x", "zz@x", Null}

InitFriend ==
  /\ users = ScoreUsers
  /\ friends = {}
  /\ nights = {}
  /\ clock = ScoreClock
  /\ build = "current"
  /\ lb = IdleLb
  /\ issued = {}
  /\ resp = NoResp
  /\ replies = <<>>
  /\ up = IdleUp
  /\ fr = IdleAdds
  /\ del = IdleDel
  /\ hook = IdleHook

NextFriend ==
  \E s \in AddSlots :
    \/ FrReject(s, Adders)
    \/ FrStart(s, Adders, AddEmails)
    \/ FrTarget(s)
    \/ FrExisting(s)
    \/ FrCreate(s)
    \/ FrCreateFail(s)
    \/ FrNext(s)

SpecFriend == InitFriend /\ [][NextFriend]_vars

\* the users u and v are joined by a friend row
Connected(u, v) ==
  \E f \in friends : \/ f.userId = u /\ f.friendId = v
                     \/ f.userId = v /\ f.friendId = u

\* the step answers the request of slot s
FrAnswered(s) == fr[s].pc \notin {"idle", "done"} /\ fr'[s].pc = "done"

NoSelfEdge == \A f \in friends : f.userId # f.friendId

OneEdgePerPair ==
  \A f, g \in friends : ~(f.userId = g.friendId /\ f.friendId = g.userId)

\* C23 as stated: under every interleaving of friend-add requests the table
\* has no row from a user to themselves and at most one row per unordered
\* pair, and a request for a pair that is connected when it is answered gets
\* 400 and adds no row.
C23_FriendInvariant ==
  /\ [](NoSelfEdge /\ OneEdgePerPair)
  /\ [][\A s \in AddSlots :
          (FrAnswered(s) /\ fr[s].targetId # Null
             /\ Connected(fr[s].userId, fr[s].targetId)) =>
            (fr'[s].status = 400 /\ friends' = friends)]_vars

\* C23 for what the handler does enforce: no row joins a user to themselves,
\* a request answered with anything but 200 adds no row, a request that
\* finds the pair connected at its check is answered 400, and a row is never
\* stored twice in the same direction.
C23_ChecksAtLookup ==
  /\ []NoSelfEdge
  /\ [][\A s \in AddSlots :
          /\ (FrAnswered(s) /\ fr'[s].status # 200) => friends' = friends
          /\ (fr[s].pc = "findExisting" /\ fr'[s].pc # "findExisting"
                /\ Connected(fr[s].userId, fr[s].targetId)) =>
               (fr'[s].pc = "done" /\ fr'[s].status = 400)
          /\ (FrAnswered(s) /\ fr'[s].status = 200) =>
               \E f \in friends' \ friends :
                 f.userId = fr[s].userId /\ f.friendId = fr[s].targetId]_vars

\* a request for a connected pair has been answered 400 "Already friends"
\* while the other slot was refused an add to oneself
C23_RefusalsReached ==
  /\ \E s \in AddSlots :
       fr[s].pc = "done" /\ fr[s].error = "Already friends"
  /\ \E s \in AddSlots :
       fr[s].pc = "done" /\ fr[s].error = "Cannot add yourself as a friend"
  /\ friends # {}

\* ------------------------------------------------------------------------
\* Specification SpecDelete: A deletes the account while an upload of A, a
\* friend add between A and B and a leaderboard request of B are handled
\* ------------------------------------------------------------------------

DeleteNights ==
  {mkNight("A", ScoreMonday, <<300, 50, 20>>), mkNight("B", ScoreMonday, <<500, 10, 90>>)}

DeleteFriends ==
  {[userId |-> "A", friendId |-> "B"], [userId |-> "C", friendId |-> "A"]}

DeleteBodies ==
  {[date |-> MkDate(ScoreTuesday, 0), totalSleepMinutes |-> <<3000>>,
    remSleepMinutes |-> <<500>>, deepSleepMinutes |-> <<200>>]}

DeleteQueries == [userId : {"B"}, scope : {"friends"}, offset : {<<>>}]

InitDelete ==
  /\ users = [u \in {"A", "B", "C"} |-> ScoreUsers[u]]
  /\ friends = DeleteFriends
  /\ nights = DeleteNights
  /\ clock = ScoreClock
  /\ build = "current"
  /\ lb = IdleLb
  /\ issued = {}
  /\ resp = NoResp
  /\ replies = <<>>
  /\ up = IdleUp
  /\ fr = IdleAdds
  /\ del = IdleDel
  /\ hook = IdleHook

NextDelete ==
  \/ DelStart({"A"})
  \/ DelNights
  \/ DelFriends
  \/ DelUser
  \/ DelUserFail
  \/ DelAuth
  \/ DelAuthFail
  \/ UpStart({"A"}, DeleteBodies)
  \/ UpUser
  \/ UpNight
  \/ UpNightFail
  \/ FrStart(1, {"A", "B"}, {"a@x", "b@x"})
  \/ FrTarget(1)
  \/ FrExisting(1)
  \/ FrCreate(1)
  \/ FrCreateFail(1)
  \/ LbStart(DeleteQueries)
  \/ LbFriends
  \/ LbNights
  \/ LbRespond

SpecDelete == InitDelete /\ [][NextDelete]_vars

\* the delete-account request has removed the user row
Removed ==
  \/ del.pc = "deleteAuth"
  \/ del.pc = "done" /\ del.status = 200
  \/ del.pc = "done" /\ del.error = "auth.admin.deleteUser"

\* the step resolves the population of a leaderboard request
PopulationStep == lb.pc \in {"findFriends", "findMembers"} /\ lb'.pc = "findNights"

NothingRemoved ==
  del.nightsBefore \subseteq nights /\ del.friendsBefore \subseteq friends

\* C30 as stated: a delete-account request that ends with the 500 "Failed to
\* delete account" response has left the user's sleep records and friend
\* rows as they were before the request.
C30_DeleteAllOrNothing ==
  (del.pc = "done" /\ del.status = 500) => NothingRemoved

\* ------------------------------------------------------------------------
\* Specification SpecSnapshot: a leaderboard request of B while A deletes the
\* account, B uploads a night and C adds B as a friend
\* ------------------------------------------------------------------------

SnapshotBodies ==
  {[date |-> MkDate(ScoreTuesday, 0), totalSleepMinutes |-> <<4446>>,
    remSleepMinutes |-> <<405>>, deepSleepMinutes |-> <<895>>]}

InitSnapshot ==
  /\ users = [u \in {"A", "B", "C"} |-> ScoreUsers[u]]
  /\ friends = DeleteFriends
  /\ nights = DeleteNights
  /\ clock = ScoreClock
  /\ build = "current"
  /\ lb = IdleLb
  /\ issued = {}
  /\ resp = NoResp
  /\ replies = <<>>
  /\ up = IdleUp
  /\ fr = IdleAdds
  /\ del = IdleDel
  /\ hook = IdleHook

NextSnapshot ==
  \/ LbStart(DeleteQueries)
  \/ LbFriends
  \/ LbNights
  \/ LbRespond
  \/ DelStart({"A"})
  \/ DelNights
  \/ DelFriends
  \/ DelUser
  \/ DelAuth
  \/ DelAuthFail
  \/ UpStart({"B"}, SnapshotBodies)
  \/ UpUser
  \/ UpNight
  \/ FrStart(1, {"C"}, {"b@x"})
  \/ FrTarget(1)
  \/ FrExisting(1)
  \/ FrCreate(1)

SpecSnapshot == InitSnapshot /\ [][NextSnapshot]_vars

\* the friends-scope boards of the request computed from the one store
\* <<U, F, N>>, the store returning its rows in the orders ordP and ordN
boardsOfStore(U, F, N, ordP, ordN) ==
  LET rels      == {r \in F : r.userId = lb.userId \/ r.friendId = lb.userId}
      relations == RowsInOrder(rels, friendKey(rels), ordP)
      friendIds == [i \in 1..Len(relations) |->
                      IF relations[i].userId = lb.userId
                        THEN relations[i].friendId
                        ELSE relations[i].userId]
      targets   == Dedupe(<<lb.userId>> \o friendIds)
      found     == {n \in N : /\ n.userId \in SeqRange(targets)
                              /\ DateLeq(lb.startOfWeek, n.date)
                              /\ (lb.endOfWeek # NoDate => DateLt(n.date, lb.endOfWeek))}
      rawNights == RowsInOrder(found, nightKey(found), ordN)
      userMap   == [u \in (SeqRange(targets) \cap DOMAIN U) |-> U[u]]
  IN  fourBoards(rawNights, targets, userMap, build)

\* the stores SpecSnapshot can pass through: A's row is there or not, the
\* friend rows and records are those of the start or added by the requests,
\* and every row refers to users that exist
SnapshotStores ==
  {S \in [U : {[u \in D |-> ScoreUsers[u]] : D \in {{"A", "B", "C"}, {"B", "C"}}},
          F : SUBSET (DeleteFriends \cup {[userId |-> "C", friendId |-> "B"]}),
          N : SUBSET (DeleteNights \cup {mkNight("B", ScoreTuesday, <<445, 41, 90>>)})] :
     /\ \A n \in S.N : n.userId \in DOMAIN S.U
     /\ \A f \in S.F : f.userId \in DOMAIN S.U /\ f.friendId \in DOMAIN S.U}

\* C25 as stated: the boards of a request equal the boards computed from one
\* store state, population, records and profile fields all taken from it,
\* under every interleaving with uploads, friend adds and account deletions.
C25_ConsistentSnapshot ==
  Scored =>
    \E S \in SnapshotStores : \E ordP, ordN \in QueryOrders :
      resp.leaderboards = boardsOfStore(S.U, S.F, S.N, ordP, ordN)

\* C25 for a request no write interleaves with: the boards are those of the
\* store as it is; and every store the requests pass through is one of
\* SnapshotStores
C25_SnapshotWhenQuiet ==
  /\ [users |-> users, friends |-> friends, nights |-> nights] \in
       {[users |-> S.U, friends |-> S.F, nights |-> S.N] : S \in SnapshotStores}
  /\ (Scored /\ del.pc = "idle" /\ up.pc = "idle" /\ fr[1].pc = "idle") =>
       \E ordP, ordN \in QueryOrders :
         resp.leaderboards = boardsOfStore(users, friends, nights, ordP, ordN)

\* a request answered with boards while no other request had started
C25_QuietReached ==
  /\ Scored /\ del.pc = "idle" /\ up.pc = "idle" /\ fr[1].pc = "idle"
  /\ Len(RowsOf("hibernator")) = 2

\* ------------------------------------------------------------------------
\* Specification SpecAuth: requests pass the preHandler hook one at a time
\* ------------------------------------------------------------------------

AuthUrls ==
  {<<"sleep", "upload">>, <<"friends", "add">>, <<"leaderboard">>,
   <<"me", "delete-account">>, <<"health">>}

\* no Authorization header, a Basic one, and Bearer headers with the tokens
\* of A and B and with a token the auth service rejects
AuthRequests ==
  [url : AuthUrls, scheme : {"none"}, token : {Null}] \cup
  [url : AuthUrls, scheme : {"Basic"}, token : {"tokA"}] \cup
  [url : AuthUrls, scheme : {"Bearer"}, token : {"tokA", "tokB", "expired"}]

AuthBodies ==
  {[date |-> MkDate(ScoreMonday, 0), totalSleepMinutes |-> <<3000>>,
    remSleepMinutes |-> <<500>>, deepSleepMinutes |-> <<200>>],
   [date |-> MkDate(ScoreMonday, 0), totalSleepMinutes |-> <<0>>,
    remSleepMinutes |-> <<500>>, deepSleepMinutes |-> <<200>>]}

\* authReq.user as the handler of the route reads it
HandlerUser(url) ==
  IF hook.pc = "handler" /\ hook.url = url THEN {hook.userId} \ {Null} ELSE {}

InitAuth ==
  /\ users = [u \in {"A", "B"} |-> ScoreUsers[u]]
  /\ friends = {}
  /\ nights = {}
  /\ clock = ScoreClock
  /\ build = "current"
  /\ lb = IdleLb
  /\ issued = {}
  /\ resp = NoResp
  /\ replies = <<>>
  /\ up = IdleUp
  /\ fr = IdleAdds
  /\ del = IdleDel
  /\ hook = IdleHook

NextAuth ==
  \/ PreHandler(AuthRequests)
  \/ Health
  \/ HookNext
  \/ (replies = <<>> /\
        LbStart([userId : HandlerUser(<<"leaderboard">>), scope : {"friends"},
                 offset : {<<>>}]))
  \/ LbFriends
  \/ LbNights
  \/ LbRespond
  \/ UpReject(HandlerUser(<<"sleep", "upload">>), AuthBodies)
  \/ UpStart(HandlerUser(<<"sleep", "upload">>), AuthBodies)
  \/ UpUser
  \/ UpNight
  \/ FrStart(1, HandlerUser(<<"friends", "add">>), {"a@x", "b@x"})
  \/ FrTarget(1)
  \/ FrExisting(1)
  \/ FrCreate(1)
  \/ DelStart(HandlerUser(<<"me", "delete-account">>))
  \/ DelNights
  \/ DelFriends
  \/ DelUser
  \/ DelUserFail
  \/ DelAuth

SpecAuth == InitAuth /\ [][NextAuth]_vars

\* a route the claim speaks of
Guarded(url) == url[1] \in {"sleep", "friends", "leaderboard", "me"}

\* the request carries a Bearer token the auth service verifies
Verified(h) == h.scheme = "Bearer" /\ h.token \in {"tokA", "tokB", "tokD"}

\* the step takes a request in
Arrives == hook.pc = "idle" /\ hook'.pc # "idle"

\* the step is one of a route handler
HandlerStep == lb' # lb \/ up' # up \/ fr' # fr \/ del' # del

\* C26: a request to a /sleep, /friends, /leaderboard or /me route that has
\* no Bearer token, or whose token fails verification, is answered 401 by
\* the hook; no handler runs for it and users, friend rows and sleep records
\* stay as they are.
C26_Unauthenticated ==
  /\ [][(Arrives /\ Guarded(hook'.url) /\ ~Verified(hook')) =>
          (hook'.pc = "done" /\ hook'.status = 401 /\ ~HandlerStep)]_vars
  /\ [][(hook.pc = "done" /\ hook.status = 401) =>
          (~HandlerStep /\ users' = users /\ friends' = friends /\ nights' = nights)]_vars
  /\ [][(HandlerStep /\ hook'.pc # "idle") =>
          (hook.pc = "handler" /\ Verified(hook))]_vars

\* a leaderboard request with a rejected token is answered 401 "Invalid
\* token" on a store that earlier, authenticated requests have written to
C26_Witness ==
  /\ hook.pc = "done" /\ hook.status = 401
  /\ hook.url = <<"leaderboard">>
  /\ hook.error = "Invalid token"
  /\ lb.pc = "idle"
  /\ nights # {} /\ friends # {}

====
